---- MODULE Spec2Model ----
(***************************************************************************)
(* tinyvm: the 16-bit virtual machine (vm.rs), the test-driver protocol   *)
(* (test_driver.rs) and the Connect-4 arena (connect4.rs).                 *)
(***************************************************************************)
EXTENDS Integers, Naturals, Sequences, FiniteSets, TLC

VARIABLES
    host,      \* build/environment of the host: DUMP_ON_DEBUG, overflow checks
    vm,        \* a stand-alone VirtualMachine stepped by a host loop
    vm_obs,    \* what the host loop around vm.step() observed so far
    td,        \* TestDriverData
    td_run,    \* TestDriverData::conclude: its argument and its return value
    td_obs,    \* what each do_step did
    game,      \* Game
    g_obs,     \* what each do_move did
    many,      \* run_and_print_many_games: its progress through the games
    bd         \* a Board on its own, and the last call made on it

vars == <<host, vm, vm_obs, td, td_run, td_obs, game, g_obs, many, bd>>

----------------------------------------------------------------------------
\* Bounds of the model.

\* VM alone: number of vm.step() calls the host loop makes
MaxCalls == 4
\* VM alone: largest immediate the generated programs load before rnd
MaxRnd == 2
\* test driver: largest total_budget handed to conclude
MaxBudget == 13
\* game: largest per-move step budget max_steps
MaxSteps == 5
\* game: do_move calls made after the game has ended
MaxExtraCalls == 2
\* rnd: largest random 64-bit value drawn; not below the largest
\* upper_bound the generated programs hand to rnd (0x42)
MaxRandom == 66

----------------------------------------------------------------------------
\* Words and two's-complement helpers (Rust u16 / i16 / i8 arithmetic).

W16 == 65536
Word == 0..(W16 - 1)

\* faulty variant of wrapping_add: the sum stops at 0xFFFF
saturating_add(a, b) == IF a + b >= W16 THEN W16 - 1 ELSE a + b
wrapping_add(a, b) == (a + b) % W16
wrapping_sub(a, b) == (a - b) % W16
wrapping_mul(a, b) == (a * b) % W16

\* `x as i16` for a u16 x
as_i16(x) == IF x >= 32768 THEN x - W16 ELSE x
\* `x as i8` for a byte x
as_i8(b) == IF b >= 128 THEN b - 256 ELSE b
\* `i as u16` for a signed i
as_u16(i) == i % W16

Abs(i) == IF i < 0 THEN 0 - i ELSE i

RECURSIVE Pow2(_)
Pow2(n) == IF n = 0 THEN 1 ELSE 2 * Pow2(n - 1)

RECURSIVE BitAnd(_, _)
BitAnd(a, b) ==
    IF a = 0 \/ b = 0 THEN 0
    ELSE (a % 2) * (b % 2) + 2 * BitAnd(a \div 2, b \div 2)

RECURSIVE BitOr(_, _)
BitOr(a, b) ==
    IF a = 0 THEN b
    ELSE IF b = 0 THEN a
    ELSE (IF (a % 2) + (b % 2) > 0 THEN 1 ELSE 0) + 2 * BitOr(a \div 2, b \div 2)

RECURSIVE BitXor(_, _)
BitXor(a, b) ==
    IF a = 0 THEN b
    ELSE IF b = 0 THEN a
    ELSE ((a + b) % 2) + 2 * BitXor(a \div 2, b \div 2)

BitNot(a) == (W16 - 1) - a

RECURSIVE count_ones(_)
count_ones(a) == IF a = 0 THEN 0 ELSE (a % 2) + count_ones(a \div 2)

RECURSIVE BitLen(_)
BitLen(a) == IF a = 0 THEN 0 ELSE 1 + BitLen(a \div 2)

leading_zeros(a) == 16 - BitLen(a)

RECURSIVE trailing_zeros(_)
trailing_zeros(a) ==
    IF a = 0 THEN 16
    ELSE IF a % 2 = 1 THEN 0
    ELSE 1 + trailing_zeros(a \div 2)

\* faulty variant of TruncDiv: the quotient is rounded toward minus infinity
FloorDiv(a, b) == IF b < 0 THEN (0 - a) \div (0 - b) ELSE a \div b
\* Rust integer division truncates toward zero
TruncDiv(a, b) ==
    IF (a < 0) = (b < 0) THEN Abs(a) \div Abs(b) ELSE 0 - (Abs(a) \div Abs(b))
TruncRem(a, b) == a - b * TruncDiv(a, b)

\* u16::checked_div(..).unwrap_or(d) and friends
checked_div_u(a, b, d) == IF b = 0 THEN d ELSE a \div b
checked_rem_u(a, b, d) == IF b = 0 THEN d ELSE a % b
\* i16::wrapping_div: i16::MIN / -1 wraps to i16::MIN
wrapping_div_s(a, b) == as_u16(TruncDiv(a, b))
\* i16::checked_rem: None for b = 0 and for i16::MIN % -1
checked_rem_s(a, b, d) ==
    IF b = 0 \/ (a = -32768 /\ b = -1) THEN d ELSE as_u16(TruncRem(a, b))

wrapping_shl(a, n) == (a * Pow2(n % 16)) % W16
wrapping_shr(a, n) == a \div Pow2(n % 16)
\* i16::wrapping_shr: arithmetic shift, rounds toward minus infinity
wrapping_shr_s(a, n) ==
    LET p == Pow2(n % 16)
        r == a % p
    IN  (a - r) \div p

\* u64 values that can be large (testee_limit, testee_remaining) are kept as
\* their four 16-bit words, most significant first; the u64 counters (time,
\* driver_insns, testee_insns, total_insns, the budgets) stay far below 2^31
\* in every run of the model and are kept as numbers.
U64_from_nat(n) == <<0, 0, (n \div W16) % W16, n % W16>>
U64_is_zero(x) == x = <<0, 0, 0, 0>>
\* x - 1 for x > 0
U64_dec(x) ==
    IF x[4] > 0 THEN <<x[1], x[2], x[3], x[4] - 1>>
    ELSE IF x[3] > 0 THEN <<x[1], x[2], x[3] - 1, 65535>>
    ELSE IF x[2] > 0 THEN <<x[1], x[2] - 1, 65535, 65535>>
    ELSE <<x[1] - 1, 65535, 65535, 65535>>
\* x + n for a small n, dropping a carry out of the top word
U64_add_nat(x, n) ==
    LET s4 == x[4] + n
        s3 == x[3] + (s4 \div W16)
        s2 == x[2] + (s3 \div W16)
        s1 == x[1] + (s2 \div W16)
    IN  <<s1 % W16, s2 % W16, s3 % W16, s4 % W16>>
\* n <= x for a small n
U64_ge_nat(x, n) ==
    x[1] > 0 \/ x[2] > 0 \/ x[3] * W16 + x[4] >= n
\* the k-th 16-bit word (k = 0 least significant) of a u64 counter
Limb(n, k) == IF k >= 2 THEN 0 ELSE (n \div Pow2(16 * k)) % W16

----------------------------------------------------------------------------
\* Segment: 65536 words, kept as the finite map of its non-zero words.

new_zeroed == [a \in {} |-> 0]

SegRead(seg, index) == IF index \in DOMAIN seg THEN seg[index] ELSE 0

SegWrite(seg, index, value) ==
    IF value = 0
    THEN [a \in (DOMAIN seg) \ {index} |-> seg[a]]
    ELSE [a \in (DOMAIN seg) \cup {index} |-> IF a = index THEN value ELSE seg[a]]

\* several index_mut writes to different addresses (updates: address -> word)
SegWriteAll(seg, updates) ==
    LET word(a) == IF a \in DOMAIN updates THEN updates[a] ELSE seg[a]
    IN  [a \in {x \in (DOMAIN seg) \cup (DOMAIN updates) : word(x) # 0} |-> word(a)]

\* Segment::from_prefix; addresses of the model's sequences start at 1
from_prefix(prefix) ==
    [a \in {i - 1 : i \in {j \in DOMAIN prefix : prefix[j] # 0}} |-> prefix[a + 1]]

\* the segment holding the words of f (a map from addresses to words)
SegOf(f) == [a \in {x \in DOMAIN f : f[x] # 0} |-> f[a]]

----------------------------------------------------------------------------
\* StepResult

Continue == [kind |-> "Continue", value |-> 0]
DebugDump == [kind |-> "DebugDump", value |-> 0]
IllegalInstruction(insn) == [kind |-> "IllegalInstruction", value |-> insn]
\* faulty variant of Yield: the value of r0 is not handed over
Yield_nothing(value) == [kind |-> "Yield", value |-> 0]
Yield(value) == [kind |-> "Yield", value |-> value]
\* the host process aborted inside the step (a Rust panic); not a StepResult
Panicked == [kind |-> "Panic", value |-> 0]

----------------------------------------------------------------------------
\* VirtualMachine

VirtualMachine_new(instructions, data) ==
    [registers |-> [i \in 0..15 |-> 0],
     program_counter |-> 0,
     time |-> 0,
     instructions |-> instructions,
     data |-> data,
     deterministic_so_far |-> TRUE,
     dumped_input_memory |-> FALSE]

set_register(self, index, value) ==
    [self EXCEPT !.registers[index] = value]

set_data_word(self, index, value) ==
    [self EXCEPT !.data = SegWrite(self.data, index, value)]

\* the fields of an instruction word: nibbles 3 (top) .. 0, and masks
Nibble(instruction, n) == (instruction \div Pow2(4 * n)) % 16
LowByte(instruction) == instruction % 256
Low12(instruction) == instruction % 4096

\* one sub-step: the machine after it, its StepResult, and whether step()
\* still has to increment the program counter
Sub(self, result, inc) == [vm |-> self, result |-> result, inc |-> inc]

\* the random 64-bit values getrandom delivers: 0..MaxRandom of them; with
\* MaxRandom at least the largest upper_bound of the instruction images
\* every residue of `value % modulus` occurs, as it does for 0..2^64-1
random_u64_values == 0..MaxRandom

\* faulty variant of random_upto_including: the modulus is upper_bound
random_upto_excluding(upper_bound) ==
    IF upper_bound = 0 THEN {0}
    ELSE {(value % upper_bound) % W16 : value \in random_u64_values}

\* random_upto_including: `value %= modulus; value as u16` for a random
\* 64-bit value, with `modulus = u64::from(upper_bound) + 1` (at most
\* 2^16, never 0); the set of possible results
random_upto_including(upper_bound) ==
    LET modulus == upper_bound + 1
    IN  {(value % modulus) % W16 : value \in random_u64_values}

\* 0x102C with DUMP_ON_DEBUG: `2 * self.program_counter` and
\* `self.program_counter + i` (i in 1..9) are u16 arithmetic
debug_dump_overflows(self) ==
    \/ 2 * self.program_counter >= W16
    \/ self.program_counter + 8 >= W16

\* faulty variant of step_special: 0x102A leaves the program counter at the
\* instruction, as the `Return` of the earlier VirtualMachine did
step_special_return(self, instruction, h) ==
    LET low == Low12(instruction) IN
    IF low = 42 THEN
        {Sub(self, Yield(self.registers[0]), FALSE)}
    ELSE IF low = 43 THEN
        {Sub([self EXCEPT !.registers =
                  [i \in 0..15 |->
                      IF i = 0 THEN (IF self.registers[0] = 0 THEN 32768 ELSE 0)
                      ELSE IF i \in 1..3 THEN 0
                      ELSE self.registers[i]]],
             Continue, TRUE)}
    ELSE IF low = 44 THEN
        IF h.dump_on_debug
        THEN IF h.overflow_checks /\ debug_dump_overflows(self)
             THEN {Sub(self, Panicked, FALSE)}
             ELSE {Sub([self EXCEPT !.dumped_input_memory = TRUE], DebugDump, TRUE)}
        ELSE {Sub(self, DebugDump, TRUE)}
    ELSE IF low = 45 THEN
        {Sub([self EXCEPT !.registers =
                  [i \in 0..15 |->
                      IF i = 0 THEN Limb(self.time, 3)
                      ELSE IF i = 1 THEN Limb(self.time, 2)
                      ELSE IF i = 2 THEN Limb(self.time, 1)
                      ELSE IF i = 3 THEN Limb(self.time, 0)
                      ELSE self.registers[i]]],
             Continue, TRUE)}
    ELSE {Sub(self, IllegalInstruction(instruction), TRUE)}

step_special(self, instruction, h) ==
    LET low == Low12(instruction) IN
    IF low = 42 THEN
        {Sub(self, Yield(self.registers[0]), TRUE)}
    ELSE IF low = 43 THEN
        {Sub([self EXCEPT !.registers =
                  [i \in 0..15 |->
                      IF i = 0 THEN (IF self.registers[0] = 0 THEN 32768 ELSE 0)
                      ELSE IF i \in 1..3 THEN 0
                      ELSE self.registers[i]]],
             Continue, TRUE)}
    ELSE IF low = 44 THEN
        IF h.dump_on_debug
        THEN IF h.overflow_checks /\ debug_dump_overflows(self)
             THEN {Sub(self, Panicked, FALSE)}
             ELSE {Sub([self EXCEPT !.dumped_input_memory = TRUE], DebugDump, TRUE)}
        ELSE {Sub(self, DebugDump, TRUE)}
    ELSE IF low = 45 THEN
        {Sub([self EXCEPT !.registers =
                  [i \in 0..15 |->
                      IF i = 0 THEN Limb(self.time, 3)
                      ELSE IF i = 1 THEN Limb(self.time, 2)
                      ELSE IF i = 2 THEN Limb(self.time, 1)
                      ELSE IF i = 3 THEN Limb(self.time, 0)
                      ELSE self.registers[i]]],
             Continue, TRUE)}
    ELSE {Sub(self, IllegalInstruction(instruction), TRUE)}

step_memory(self, instruction) ==
    LET memory_command == Nibble(instruction, 2)
        register_address == Nibble(instruction, 1)
        register_data == Nibble(instruction, 0)
        address == self.registers[register_address]
    IN  IF memory_command = 0 THEN
            {Sub(set_data_word(self, address, self.registers[register_data]),
                 Continue, TRUE)}
        ELSE IF memory_command = 1 THEN
            {Sub(set_register(self, register_data, SegRead(self.data, address)),
                 Continue, TRUE)}
        ELSE IF memory_command = 2 THEN
            {Sub(set_register(self, register_data, SegRead(self.instructions, address)),
                 Continue, TRUE)}
        ELSE {Sub(self, IllegalInstruction(instruction), TRUE)}

step_load_imm_low(self, instruction) ==
    LET register == Nibble(instruction, 2)
        data == as_u16(as_i8(LowByte(instruction)))
    IN  {Sub(set_register(self, register, data), Continue, TRUE)}

step_load_imm_high(self, instruction) ==
    LET register_index == Nibble(instruction, 2)
        data == LowByte(instruction) * 256
    IN  {Sub(set_register(self, register_index,
                          BitOr(BitAnd(self.registers[register_index], 255), data)),
             Continue, TRUE)}

\* faulty variant of rnd_executes: the rnd function leaves the flag alone
rnd_keeps_flag(self) == self

\* `self.deterministic_so_far = false;` of the rnd function
rnd_executes(self) == [self EXCEPT !.deterministic_so_far = FALSE]

step_unary(self, instruction) ==
    LET function == Nibble(instruction, 2)
        source == self.registers[Nibble(instruction, 1)]
        dst == Nibble(instruction, 0)
    IN  IF function = 8 THEN
            {Sub(set_register(self, dst, wrapping_sub(source, 1)), Continue, TRUE)}
        ELSE IF function = 9 THEN
            {Sub(set_register(self, dst, wrapping_add(source, 1)), Continue, TRUE)}
        ELSE IF function = 10 THEN
            {Sub(set_register(self, dst, BitNot(source)), Continue, TRUE)}
        ELSE IF function = 11 THEN
            {Sub(set_register(self, dst, count_ones(source)), Continue, TRUE)}
        ELSE IF function = 12 THEN
            {Sub(set_register(self, dst, leading_zeros(source)), Continue, TRUE)}
        ELSE IF function = 13 THEN
            {Sub(set_register(self, dst, trailing_zeros(source)), Continue, TRUE)}
        ELSE IF function = 14 THEN
            {Sub(set_register(rnd_executes(self), dst, v),
                 Continue, TRUE) : v \in random_upto_including(source)}
        ELSE IF function = 15 THEN
            {Sub(set_register(self, dst, source), Continue, TRUE)}
        ELSE {Sub(self, IllegalInstruction(instruction), TRUE)}

\* faulty variant of binary_value: sl, srl and sra shift by the low four bits
\* of the amount, as `<<` and `>>` would
binary_value_masked_shift(function, source, destination) ==
    CASE function = 0 -> wrapping_add(source, destination)
      [] function = 1 -> wrapping_sub(source, destination)
      [] function = 2 -> wrapping_mul(source, destination)
      [] function = 3 -> (source * destination) \div W16
      [] function = 4 -> checked_div_u(source, destination, 65535)
      [] function = 5 -> IF destination = 0 THEN 32767
                         ELSE wrapping_div_s(as_i16(source), as_i16(destination))
      [] function = 6 -> checked_rem_u(source, destination, 0)
      [] function = 7 -> checked_rem_s(as_i16(source), as_i16(destination), 0)
      [] function = 8 -> BitAnd(destination, source)
      [] function = 9 -> BitOr(destination, source)
      [] function = 10 -> BitXor(destination, source)
      [] function = 11 -> wrapping_shl(source, destination)
      [] function = 12 -> wrapping_shr(source, destination)
      [] function = 13 -> as_u16(wrapping_shr_s(as_i16(source), destination))
      [] OTHER -> -1

\* the value a binary function writes to the destination; -1 if illegal
binary_value(function, source, destination) ==
    CASE function = 0 -> wrapping_add(source, destination)
      [] function = 1 -> wrapping_sub(source, destination)
      [] function = 2 -> wrapping_mul(source, destination)
      [] function = 3 -> (source * destination) \div W16
      [] function = 4 -> checked_div_u(source, destination, 65535)
      [] function = 5 -> IF destination = 0 THEN 32767
                         ELSE wrapping_div_s(as_i16(source), as_i16(destination))
      [] function = 6 -> checked_rem_u(source, destination, 0)
      [] function = 7 -> checked_rem_s(as_i16(source), as_i16(destination), 0)
      [] function = 8 -> BitAnd(destination, source)
      [] function = 9 -> BitOr(destination, source)
      [] function = 10 -> BitXor(destination, source)
      [] function = 11 -> IF destination >= 16 THEN 0
                          ELSE wrapping_shl(source, destination)
      [] function = 12 -> IF destination >= 16 THEN 0
                          ELSE wrapping_shr(source, destination)
      [] function = 13 -> IF destination >= 16
                          THEN (IF BitAnd(source, 32768) # 0 THEN 65535 ELSE 0)
                          ELSE as_u16(wrapping_shr_s(as_i16(source), destination))
      [] OTHER -> -1

step_binary(self, instruction) ==
    LET function == Nibble(instruction, 2)
        source == self.registers[Nibble(instruction, 1)]
        dst == Nibble(instruction, 0)
        value == binary_value(function, source, self.registers[dst])
    IN  IF value = -1
        THEN {Sub(self, IllegalInstruction(instruction), TRUE)}
        ELSE {Sub(set_register(self, dst, value), Continue, TRUE)}

\* faulty variant of step_compare: a register is compared with itself when
\* both register fields name it
step_compare_with_itself(self, instruction) ==
    LET flag_l == BitAnd(instruction, 2048) # 0
        flag_e == BitAnd(instruction, 1024) # 0
        flag_g == BitAnd(instruction, 512) # 0
        flag_s == BitAnd(instruction, 256) # 0
        register_lhs == Nibble(instruction, 1)
        register_rhs == Nibble(instruction, 0)
        lhs == IF flag_s THEN as_i16(self.registers[register_lhs])
               ELSE self.registers[register_lhs]
        rhs == IF flag_s THEN as_i16(self.registers[register_rhs])
               ELSE self.registers[register_rhs]
        holds == (flag_l /\ lhs < rhs) \/ (flag_e /\ lhs = rhs) \/ (flag_g /\ lhs > rhs)
    IN  {Sub(set_register(self, register_rhs, IF holds THEN 1 ELSE 0), Continue, TRUE)}

step_compare(self, instruction) ==
    LET flag_l == BitAnd(instruction, 2048) # 0
        flag_e == BitAnd(instruction, 1024) # 0
        flag_g == BitAnd(instruction, 512) # 0
        flag_s == BitAnd(instruction, 256) # 0
        register_lhs == Nibble(instruction, 1)
        register_rhs == Nibble(instruction, 0)
        lhs == IF flag_s THEN as_i16(self.registers[register_lhs])
               ELSE self.registers[register_lhs]
        raw_rhs == IF flag_s THEN as_i16(self.registers[register_rhs])
                   ELSE self.registers[register_rhs]
        rhs == IF register_lhs = register_rhs THEN 0 ELSE raw_rhs
        holds == (flag_l /\ lhs < rhs) \/ (flag_e /\ lhs = rhs) \/ (flag_g /\ lhs > rhs)
    IN  {Sub(set_register(self, register_rhs, IF holds THEN 1 ELSE 0), Continue, TRUE)}

step_branch(self, instruction) ==
    LET register == Nibble(instruction, 2)
        offset == instruction % 128
        sign_bit == BitAnd(instruction, 128)
    IN  IF self.registers[register] # 0
        THEN IF sign_bit = 0
             THEN {Sub([self EXCEPT !.program_counter =
                            wrapping_add(self.program_counter, 2 + offset)],
                       Continue, FALSE)}
             ELSE {Sub([self EXCEPT !.program_counter =
                            wrapping_sub(self.program_counter, 1 + offset)],
                       Continue, FALSE)}
        ELSE {Sub(self, Continue, TRUE)}

\* faulty variant of step_jump_imm: the immediate is a plain signed offset
\* from the address of the jump
step_jump_imm_plain_offset(self, instruction) ==
    LET offset == instruction % 2048
        sign_bit == BitAnd(instruction, 2048)
    IN  IF sign_bit = 0
        THEN {Sub([self EXCEPT !.program_counter =
                       wrapping_add(self.program_counter, offset)],
                  Continue, FALSE)}
        ELSE {Sub([self EXCEPT !.program_counter =
                       wrapping_sub(self.program_counter, offset)],
                  Continue, FALSE)}

step_jump_imm(self, instruction) ==
    LET offset == instruction % 2048
        sign_bit == BitAnd(instruction, 2048)
    IN  IF sign_bit = 0
        THEN {Sub([self EXCEPT !.program_counter =
                       wrapping_add(self.program_counter, 2 + offset)],
                  Continue, FALSE)}
        ELSE {Sub([self EXCEPT !.program_counter =
                       wrapping_sub(self.program_counter, 1 + offset)],
                  Continue, FALSE)}

step_jump_reg(self, instruction) ==
    LET register == Nibble(instruction, 2)
        offset == as_u16(as_i8(LowByte(instruction)))
    IN  {Sub([self EXCEPT !.program_counter =
                  wrapping_add(self.registers[register], offset)],
             Continue, FALSE)}

step_jump_reg_high(self, instruction) ==
    LET register == Nibble(instruction, 2)
        byte_high == LowByte(instruction) * 256
        byte_low == BitAnd(self.registers[register], 255)
    IN  {Sub([self EXCEPT !.program_counter = BitOr(byte_high, byte_low)],
             Continue, FALSE)}

\* faulty variant of counts_time: a yield is not counted
counts_time_not_yield(result) == result.kind \in {"Continue", "DebugDump"}
\* `self.time += 1` after a step that returned Continue, DebugDump or Yield
counts_time(result) == result.kind \in {"Continue", "DebugDump", "Yield"}

\* VirtualMachine::step: the set of possible (machine, StepResult) pairs
step(self, h) ==
    LET instruction == SegRead(self.instructions, self.program_counter)
        class == Nibble(instruction, 3)
        subs ==
            CASE class = 1 -> step_special(self, instruction, h)
              [] class = 2 -> step_memory(self, instruction)
              [] class = 3 -> step_load_imm_low(self, instruction)
              [] class = 4 -> step_load_imm_high(self, instruction)
              [] class = 5 -> step_unary(self, instruction)
              [] class = 6 -> step_binary(self, instruction)
              [] class = 8 -> step_compare(self, instruction)
              [] class = 9 -> step_branch(self, instruction)
              [] class = 10 ->
                    {Sub(s.vm, s.result, FALSE) : s \in step_jump_imm(self, instruction)}
              [] class = 11 ->
                    {Sub(s.vm, s.result, FALSE) : s \in step_jump_reg(self, instruction)}
              [] class = 12 ->
                    {Sub(s.vm, s.result, FALSE) : s \in step_jump_reg_high(self, instruction)}
              [] OTHER -> {Sub(self, IllegalInstruction(instruction), FALSE)}
        finish(s) ==
            IF s.result.kind = "Panic" THEN [vm |-> s.vm, result |-> s.result]
            ELSE LET pcd == IF s.inc
                            THEN [s.vm EXCEPT !.program_counter =
                                      wrapping_add(s.vm.program_counter, 1)]
                            ELSE s.vm
                 IN  [vm |-> IF counts_time(s.result)
                             THEN [pcd EXCEPT !.time = pcd.time + 1]
                             ELSE pcd,
                      result |-> s.result]
    IN  {finish(s) : s \in subs}

----------------------------------------------------------------------------
\* A VirtualMachine on its own, stepped by a host loop as in the fuzz target
\* (fuzz_targets/run100.rs) and in tests/instructions.rs.

Idle == [idle |-> TRUE]

Hosts == [dump_on_debug : BOOLEAN, overflow_checks : BOOLEAN]
\* the default build and environment: TINYVM_DUMP_ON_DEBUG unset, not fuzzing
DefaultHost == [dump_on_debug |-> FALSE, overflow_checks |-> FALSE]

\* addresses and words of the generated instruction images
ProgAddrs == {65535, 0, 1}
InsnPool ==
    { 0,              \* 0x0000 illegal (class 0)
      4096,           \* 0x1000 illegal (class 1, unknown sub-opcode)
      4138,           \* 0x102A yield
      4140,           \* 0x102C debug-dump
      12288 + MaxRnd, \* 0x30VV lw r0, MaxRnd
      12354,          \* 0x3042 lw r0, 0x42
      36864,          \* 0x9000 b r0 +2
      24065,          \* 0x5E01 rnd r0 -> r1
      20480,          \* 0x5000 illegal (class 5, function 0)
      43008 }         \* 0xA800 j -1

NoResult == [kind |-> "None", value |-> 0]

VMInit ==
    /\ host \in Hosts
    /\ \E image \in [ProgAddrs -> InsnPool] :
           vm = VirtualMachine_new(SegOf(image), new_zeroed)
    /\ vm_obs = [calls |-> 0, last |-> NoResult, steps_ok |-> 0, rnd_executed |-> 0,
                 pc_before |-> 0, time_before |-> 0, insn |-> 0]
    /\ td = Idle /\ td_run = Idle /\ td_obs = Idle
    /\ game = Idle /\ g_obs = Idle /\ many = Idle /\ bd = Idle

\* the instruction word at the program counter is an rnd (0x5E..)
is_rnd(instruction) == Nibble(instruction, 3) = 5 /\ Nibble(instruction, 2) = 14

\* one call of vm.step() by the host loop
VMStep ==
    /\ vm_obs.calls < MaxCalls
    /\ vm_obs.last.kind # "Panic"
    /\ \E o \in step(vm, host) :
          /\ vm' = o.vm
          /\ vm_obs' =
                [calls |-> vm_obs.calls + 1,
                 last |-> o.result,
                 steps_ok |-> vm_obs.steps_ok +
                     (IF o.result.kind \in {"IllegalInstruction", "Panic"} THEN 0 ELSE 1),
                 rnd_executed |-> vm_obs.rnd_executed +
                     (IF is_rnd(SegRead(vm.instructions, vm.program_counter))
                      THEN 1 ELSE 0),
                 pc_before |-> vm.program_counter,
                 time_before |-> vm.time,
                 insn |-> SegRead(vm.instructions, vm.program_counter)]
    /\ UNCHANGED <<host, td, td_run, td_obs, game, g_obs, many, bd>>

VMNext == VMStep

SpecVM == VMInit /\ [][VMNext]_vars

----------------------------------------------------------------------------
\* C1: a step that returns Continue, DebugDump or Yield increases time by
\* exactly 1; a step that returns IllegalInstruction(w) has w = the word at
\* instructions[PC] and changes neither time nor PC; so time equals the
\* number of steps that did not return IllegalInstruction.
C1_StepTimeAndIllegalPc ==
    /\ vm_obs.last.kind \in {"Continue", "DebugDump", "Yield"}
          => vm.time = vm_obs.time_before + 1
    /\ vm_obs.last.kind = "IllegalInstruction"
          => /\ vm_obs.last.value = vm_obs.insn
             /\ vm.time = vm_obs.time_before
             /\ vm.program_counter = vm_obs.pc_before
    /\ vm.time = vm_obs.steps_ok

\* C7: the flag is false iff at least one rnd instruction has been executed;
\* it starts true and never becomes true again.
C7_DeterministicIffNoRnd ==
    /\ [](vm.deterministic_so_far <=> (vm_obs.rnd_executed = 0))
    /\ [][vm.deterministic_so_far = FALSE => vm'.deterministic_so_far = FALSE]_vars

\* an rnd has run and further steps were made after it
C7_Witness ==
    /\ vm_obs.rnd_executed > 0
    /\ ~is_rnd(vm_obs.insn)
    /\ vm_obs.calls >= 3
    /\ vm.deterministic_so_far = FALSE

----------------------------------------------------------------------------
\* TestDriverData (test_driver.rs)

TEST_DRIVER_ID == 3
TEST_DRIVER_LAYOUT_VERSION == 1
\* 0x0000_FFFF_FFFF_FFFF
DEFAULT_TESTEE_LIMIT == <<0, 65535, 65535, 65535>>

\* TestResult; None is `Option::None`, Panic is an abort of the host
TestResult(kind, value, marker, results) ==
    [kind |-> kind, value |-> value, consistent_marker |-> marker, results |-> results]
TR_None == TestResult("None", 0, FALSE, <<>>)
TR_Panic == TestResult("Panic", 0, FALSE, <<>>)
TR_Timeout == TestResult("Timeout", 0, FALSE, <<>>)
TR_IllegalInstruction(insn) == TestResult("IllegalInstruction", insn, FALSE, <<>>)
TR_IllegalYield(value) == TestResult("IllegalYield", value, FALSE, <<>>)
TR_Completed(marker, results) == TestResult("Completed", 0, marker, results)

\* faulty variant of DriverCommand_from: values above 9 count as 9
DriverCommand_from_clamped(value) ==
    CASE value = 1 -> "ExecuteTestee"
      [] value = 2 -> "Done"
      [] value = 3 -> "AccessRegisters"
      [] value = 4 -> "OverwriteData"
      [] value = 5 -> "ReadData"
      [] value = 6 -> "ReadInstructions"
      [] value = 7 -> "ResetTesteeVM"
      [] value = 8 -> "ResetTimeLimit"
      [] value >= 9 -> "SetProgramCounter"
      [] OTHER -> "Illegal"

\* impl From<u16> for DriverCommand
DriverCommand_from(value) ==
    CASE value = 1 -> "ExecuteTestee"
      [] value = 2 -> "Done"
      [] value = 3 -> "AccessRegisters"
      [] value = 4 -> "OverwriteData"
      [] value = 5 -> "ReadData"
      [] value = 6 -> "ReadInstructions"
      [] value = 7 -> "ResetTesteeVM"
      [] value = 8 -> "ResetTimeLimit"
      [] value = 9 -> "SetProgramCounter"
      [] OTHER -> "Illegal"

\* impl From<u16> for IndividualResult
IndividualResult_from(value) ==
    CASE value = 1 -> "Pass"
      [] value = 2 -> "Fail"
      [] value = 3 -> "FatalError"
      [] value = 4 -> "Skip"
      [] OTHER -> "Illegal"

TestDriverData_new(driver_instructions, testee_instructions) ==
    LET driver_data == SegWrite(SegWrite(new_zeroed, 65535, TEST_DRIVER_ID),
                                65534, TEST_DRIVER_LAYOUT_VERSION)
    IN  [vm_driver |-> VirtualMachine_new(driver_instructions, driver_data),
         vm_testee |-> VirtualMachine_new(testee_instructions, new_zeroed),
         driver_insns |-> 0,
         testee_insns |-> 0,
         testee_limit |-> DEFAULT_TESTEE_LIMIT,
         testee_remaining |-> U64_from_nat(0)]

\* faulty variant of handle_execute_testee: the "timeout" response is not
\* written to the driver's r0 and r1 in advance
handle_execute_testee_no_response(self) ==
    [self EXCEPT !.testee_remaining = self.testee_limit]

handle_execute_testee(self) ==
    [self EXCEPT !.vm_driver = set_register(set_register(self.vm_driver, 0, 1), 1, 0),
                 !.testee_remaining = self.testee_limit]

\* faulty variant of handle_done: only the first marker word is compared
handle_done_first_marker_word(self) ==
    LET expected_tests == self.vm_driver.registers[1]
        data_segment == self.vm_driver.data
    IN  IF expected_tests > 65534
        THEN TR_Completed(FALSE, <<>>)
        ELSE TR_Completed(
                 SegRead(data_segment, expected_tests) = 25869,
                 [i \in 1..expected_tests |->
                     IndividualResult_from(SegRead(data_segment, i - 1))])

handle_done(self) ==
    LET expected_tests == self.vm_driver.registers[1]
        data_segment == self.vm_driver.data
    IN  IF expected_tests > 65534
        THEN TR_Completed(FALSE, <<>>)
        ELSE TR_Completed(
                 /\ SegRead(data_segment, expected_tests) = 25869
                 /\ SegRead(data_segment, expected_tests + 1) = 17797,
                 [i \in 1..expected_tests |->
                     IndividualResult_from(SegRead(data_segment, i - 1))])

\* faulty variant of handle_access_registers: offset + i does not wrap
handle_access_registers_no_wrap(self) ==
    LET write_bitset == self.vm_driver.registers[1]
        driver_offset == self.vm_driver.registers[2]
        should_write_to_testee(i) == (write_bitset \div Pow2(i)) % 2 # 0
        offset(i) == driver_offset + i
        read_into_driver == {i \in 0..15 : ~should_write_to_testee(i)}
    IN  [self EXCEPT
            !.vm_testee.registers =
                [i \in 0..15 |->
                    IF should_write_to_testee(i)
                    THEN SegRead(self.vm_driver.data, offset(i))
                    ELSE self.vm_testee.registers[i]],
            !.vm_driver.data =
                SegWriteAll(self.vm_driver.data,
                            [a \in {offset(i) : i \in read_into_driver} |->
                                self.vm_testee.registers[wrapping_sub(a, driver_offset)]])]

\* the loop over i in 0..16 of handle_access_registers. Iteration i reads
\* and writes only testee register i and driver data word offset + i, and
\* these are 16 different words, so no iteration sees what another wrote:
\* the 16 iterations are written here side by side.
handle_access_registers(self) ==
    LET write_bitset == self.vm_driver.registers[1]
        driver_offset == self.vm_driver.registers[2]
        should_write_to_testee(i) == (write_bitset \div Pow2(i)) % 2 # 0
        offset(i) == wrapping_add(driver_offset, i)
        read_into_driver == {i \in 0..15 : ~should_write_to_testee(i)}
    IN  [self EXCEPT
            !.vm_testee.registers =
                [i \in 0..15 |->
                    IF should_write_to_testee(i)
                    THEN SegRead(self.vm_driver.data, offset(i))
                    ELSE self.vm_testee.registers[i]],
            !.vm_driver.data =
                SegWriteAll(self.vm_driver.data,
                            [a \in {offset(i) : i \in read_into_driver} |->
                                self.vm_testee.registers[wrapping_sub(a, driver_offset)]])]

RECURSIVE overwrite_data_from(_, _)
overwrite_data_from(self, i) ==
    IF i >= self.vm_driver.registers[3] THEN self
    ELSE LET testee_dst_index == wrapping_add(self.vm_driver.registers[1], i)
             driver_src_index == wrapping_add(self.vm_driver.registers[2], i)
         IN  overwrite_data_from(
                 [self EXCEPT !.vm_testee =
                     set_data_word(self.vm_testee, testee_dst_index,
                                   SegRead(self.vm_driver.data, driver_src_index))],
                 i + 1)

handle_overwrite_data(self) == overwrite_data_from(self, 0)

\* the loop of handle_read_data / handle_read_instructions; dst_offset,
\* src_offset and num_words are read once, before the loop
RECURSIVE read_from(_, _, _, _, _, _)
read_from(self, source, dst_offset, src_offset, num_words, i) ==
    IF i >= num_words THEN self
    ELSE read_from(
             [self EXCEPT !.vm_driver =
                 set_data_word(self.vm_driver, wrapping_add(dst_offset, i),
                               SegRead(source, wrapping_add(src_offset, i)))],
             source, dst_offset, src_offset, num_words, i + 1)

handle_read_data(self) ==
    read_from(self, self.vm_testee.data, self.vm_driver.registers[1],
              self.vm_driver.registers[2], self.vm_driver.registers[3], 0)

\* faulty variant of handle_read_instructions: the words are read from
\* the testee's data segment
handle_read_instructions_from_data(self) ==
    read_from(self, self.vm_testee.data, self.vm_driver.registers[1],
              self.vm_driver.registers[2], self.vm_driver.registers[3], 0)

handle_read_instructions(self) ==
    read_from(self, self.vm_testee.instructions, self.vm_driver.registers[1],
              self.vm_driver.registers[2], self.vm_driver.registers[3], 0)

handle_reset_time_limit(self) ==
    LET regs == self.vm_driver.registers
    \* (r1 << 32) + (r1 << 16) + r3: the three terms fill different words
    IN  [self EXCEPT !.testee_limit = <<0, regs[1], regs[1], regs[3]>>]

\* VirtualMachine::set_program_counter
set_program_counter(self, new_pc) == [self EXCEPT !.program_counter = new_pc]

handle_set_program_counter(self) ==
    [self EXCEPT !.vm_testee =
        set_program_counter(self.vm_testee, self.vm_driver.registers[1])]

\* the outcome of one do_step: the driver data after it, what do_step
\* returned, which machine was stepped and what its step returned
StepOut(self, res, who, result) ==
    [td |-> self, res |-> res, who |-> who, result |-> result]

\* handle_reset_testee_vm is `unimplemented!()`: the host panics
handle_driver_yield(self, command) ==
    LET cmd == DriverCommand_from(command)
    IN  CASE cmd = "ExecuteTestee" -> [td |-> handle_execute_testee(self), res |-> TR_None]
          [] cmd = "Done" -> [td |-> self, res |-> handle_done(self)]
          [] cmd = "AccessRegisters" -> [td |-> handle_access_registers(self), res |-> TR_None]
          [] cmd = "OverwriteData" -> [td |-> handle_overwrite_data(self), res |-> TR_None]
          [] cmd = "ReadData" -> [td |-> handle_read_data(self), res |-> TR_None]
          [] cmd = "ReadInstructions" -> [td |-> handle_read_instructions(self), res |-> TR_None]
          [] cmd = "ResetTesteeVM" -> [td |-> self, res |-> TR_Panic]
          [] cmd = "ResetTimeLimit" -> [td |-> handle_reset_time_limit(self), res |-> TR_None]
          [] cmd = "SetProgramCounter" -> [td |-> handle_set_program_counter(self), res |-> TR_None]
          [] OTHER -> [td |-> self, res |-> TR_IllegalYield(command)]

\* the testee branch of do_step, after the machine has been stepped
testee_stepped(self, o) ==
    LET counted == [self EXCEPT !.testee_remaining = U64_dec(self.testee_remaining),
                                !.testee_insns = self.testee_insns + 1,
                                !.vm_testee = o.vm]
    IN  CASE o.result.kind = "Panic" -> StepOut(counted, TR_Panic, "testee", o.result)
          [] o.result.kind = "IllegalInstruction" ->
                StepOut([counted EXCEPT
                            !.testee_remaining = U64_from_nat(0),
                            !.vm_driver = set_register(
                                set_register(self.vm_driver, 0, 65535),
                                1, o.result.value)],
                        TR_None, "testee", o.result)
          [] o.result.kind = "Yield" ->
                StepOut([counted EXCEPT
                            !.testee_remaining = U64_from_nat(0),
                            !.vm_driver = set_register(
                                set_register(self.vm_driver, 0, 0),
                                1, o.result.value)],
                        TR_None, "testee", o.result)
          [] OTHER -> StepOut(counted, TR_None, "testee", o.result)

\* the driver branch of do_step, after the machine has been stepped
driver_stepped(self, o) ==
    LET counted == [self EXCEPT !.driver_insns = self.driver_insns + 1,
                                !.vm_driver = o.vm]
    IN  CASE o.result.kind = "Panic" -> StepOut(counted, TR_Panic, "driver", o.result)
          [] o.result.kind = "IllegalInstruction" ->
                StepOut(counted, TR_IllegalInstruction(o.result.value), "driver", o.result)
          [] o.result.kind = "Yield" ->
                LET h == handle_driver_yield(counted, o.result.value)
                IN  StepOut(h.td, h.res, "driver", o.result)
          [] OTHER -> StepOut(counted, TR_None, "driver", o.result)

\* faulty variant of testee_is_active: the last budgeted testee step is lost
testee_is_active_above_one(self) ==
    ~U64_is_zero(self.testee_remaining) /\ self.testee_remaining # U64_from_nat(1)

\* which machine do_step steps
testee_is_active(self) == ~U64_is_zero(self.testee_remaining)

do_step(self, h) ==
    IF testee_is_active(self)
    THEN {testee_stepped(self, o) : o \in step(self.vm_testee, h)}
    ELSE {driver_stepped(self, o) : o \in step(self.vm_driver, h)}

\* faulty variant of budget_left: one step more than the budget
budget_left_inclusive(self, total_budget) ==
    self.driver_insns + self.testee_insns <= total_budget

\* faulty variant of budget_left: only the driver's steps are counted
budget_left_driver_only(self, total_budget) ==
    self.driver_insns < total_budget

\* the loop condition of conclude
budget_left(self, total_budget) ==
    self.driver_insns + self.testee_insns < total_budget

----------------------------------------------------------------------------
\* TestDriverData::conclude(total_budget) on a driver image and a testee image.

\* driver images are two command blocks one after the other; every block
\* loads the command into r0 and its arguments into r1..r3, then yields
Block_ExecuteTestee == <<12289, 4138>>                    \* lw r0,1; yield
Block_ExecuteWithLimit(k) ==                              \* limit := k, then run
    <<12296, 12544, 13056 + k, 4138, 12289, 4138>>
Block_Done == <<12290, 12544, 4138>>                      \* lw r0,2; lw r1,0; yield
Block_AccessRegisters == <<12291, 12549, 12816, 4138>>    \* r1 = 5, r2 = 0x10
Block_OverwriteData == <<12292, 12799, 13054, 13058, 4138>> \* r1=FFFF r2=FFFE r3=2
Block_ReadData == <<12293, 12576, 13055, 13058, 4138>>    \* r1=20 r2=FFFF r3=2
Block_ReadInstructions == <<12294, 12592, 12800, 13058, 4138>> \* r1=30 r2=0 r3=2
Block_ResetTesteeVM == <<12295, 4138>>                    \* lw r0,7; yield
Block_SetProgramCounter == <<12297, 12546, 4138>>         \* lw r0,9; lw r1,2; yield
Block_IllegalYield == <<12354, 4138>>                     \* lw r0,0x42; yield
Block_DebugDump == <<4140>>                               \* debug-dump

DriverBlocks ==
    { Block_ExecuteTestee, Block_ExecuteWithLimit(0), Block_ExecuteWithLimit(1),
      Block_ExecuteWithLimit(2), Block_Done, Block_AccessRegisters,
      Block_OverwriteData, Block_ReadData, Block_ReadInstructions,
      Block_ResetTesteeVM, Block_SetProgramCounter, Block_IllegalYield,
      Block_DebugDump }

TesteeImages ==
    { <<>>,                          \* illegal instruction 0x0000 at once
      <<12295, 4138, 22784, 4138>>,  \* lw r0,7; yield; incr r0; yield
      <<22852, 43008>>,              \* incr r4; j -1 (loops for ever)
      <<12289, 24065, 4138>>,        \* lw r0,1; rnd r0 -> r1; yield
      <<4140, 4138>>,                \* debug-dump; yield
      <<12549, 8209, 4138>> }        \* lw r1,5; sw r1,r1; yield

TDInit ==
    /\ host = DefaultHost
    /\ \E b1 \in DriverBlocks, b2 \in DriverBlocks, t \in TesteeImages :
           td = TestDriverData_new(from_prefix(b1 \o b2), from_prefix(t))
    /\ \E total_budget \in 0..MaxBudget :
           td_run = [total_budget |-> total_budget, result |-> TR_None]
    /\ td_obs = [steps |-> 0, who |-> "none", result |-> NoResult, run_steps |-> 0,
                 granted |-> U64_from_nat(0)]
    /\ vm = Idle /\ vm_obs = Idle
    /\ game = Idle /\ g_obs = Idle /\ many = Idle /\ bd = Idle

\* one iteration of the loop of conclude: a do_step
TDStep ==
    /\ td_run.result.kind = "None"
    /\ budget_left(td, td_run.total_budget)
    /\ \E o \in do_step(td, host) :
          /\ td' = o.td
          /\ td_run' = [td_run EXCEPT !.result = o.res]
          /\ td_obs' =
                [steps |-> td_obs.steps + 1,
                 who |-> o.who,
                 result |-> o.result,
                 run_steps |->
                     IF o.who = "testee" THEN td_obs.run_steps + 1
                     ELSE IF o.result = Yield(1) THEN 0
                     ELSE td_obs.run_steps,
                 \* the limit in force when the driver yielded ExecuteTestee
                 granted |->
                     IF o.who = "driver" /\ o.result = Yield(1) THEN td.testee_limit
                     ELSE td_obs.granted]
    /\ UNCHANGED <<host, vm, vm_obs, game, g_obs, many, bd>>

\* the loop of conclude ends because the budget is used up
TDTimeout ==
    /\ td_run.result.kind = "None"
    /\ ~budget_left(td, td_run.total_budget)
    /\ td_run' = [td_run EXCEPT !.result = TR_Timeout]
    /\ UNCHANGED <<host, vm, vm_obs, td, td_obs, game, g_obs, many, bd>>

TDNext == TDStep \/ TDTimeout

SpecTD == TDInit /\ [][TDNext]_vars
\* conclude is a plain loop: it keeps running until it returns
SpecTDFair == SpecTD /\ WF_vars(TDNext)

insns_sum == td.driver_insns + td.testee_insns
a_do_step_ran == td_obs'.steps = td_obs.steps + 1

\* C2: driver_insns + testee_insns <= total_budget in every state of
\* conclude, and every do_step adds exactly one to exactly one of the two
\* counters: to testee_insns iff the testee was the active machine.
C2_BudgetAccounting ==
    /\ [](insns_sum <= td_run.total_budget)
    /\ [][a_do_step_ran =>
            IF ~U64_is_zero(td.testee_remaining)
            THEN /\ td'.testee_insns = td.testee_insns + 1
                 /\ td'.driver_insns = td.driver_insns
            ELSE /\ td'.driver_insns = td.driver_insns + 1
                 /\ td'.testee_insns = td.testee_insns]_vars

\* the budget ran out after both machines had executed steps
C2_Witness ==
    /\ td_run.result.kind = "Timeout"
    /\ td.driver_insns > 0 /\ td.testee_insns > 1
    /\ insns_sum = td_run.total_budget

\* C3: a do_step steps the testee iff testee_remaining > 0, else the driver;
\* the first step is the driver's; a testee step leaves the driver alone
\* except for r0 and r1 on a yield or an illegal instruction; a driver step
\* changes the testee only on the commands 3, 4, 7 and 9.
C3_OneMachinePerStep ==
    [][a_do_step_ran =>
        LET d == td.vm_driver
            d2 == td'.vm_driver
            t == td.vm_testee
            t2 == td'.vm_testee
            r == td_obs'.result
        IN  /\ td_obs'.who = (IF ~U64_is_zero(td.testee_remaining) THEN "testee" ELSE "driver")
            /\ td_obs.steps = 0 => td_obs'.who = "driver"
            /\ td_obs'.who = "testee" =>
                  /\ [vm |-> t2, result |-> r] \in step(t, host)
                  /\ d2.program_counter = d.program_counter
                  /\ d2.time = d.time
                  /\ d2.data = d.data
                  /\ d2.instructions = d.instructions
                  /\ \A i \in 2..15 : d2.registers[i] = d.registers[i]
                  /\ d2.registers # d.registers =>
                        r.kind \in {"Yield", "IllegalInstruction"}
            /\ td_obs'.who = "driver" =>
                  /\ d2.time = d.time + (IF r.kind = "IllegalInstruction" THEN 0 ELSE 1)
                  /\ t2.time = t.time
                  /\ t2 # t => r.kind = "Yield" /\ r.value \in {3, 4, 7, 9}]_vars

\* the testee has just yielded a value that was written to the driver
C3_Witness ==
    /\ td_obs.who = "testee"
    /\ td_obs.result.kind = "Yield"
    /\ td_obs.result.value # 0
    /\ td.vm_driver.registers[1] = td_obs.result.value
    /\ td.vm_driver.time > 0

\* C4: after ExecuteTestee the testee runs at most testee_limit steps, and
\* the driver then finds r0 = 0, r1 = v after a yield of v, r0 = 0xFFFF,
\* r1 = w after an illegal instruction w, and r0 = 1, r1 = 0 after the
\* limit was used up; a yield on the last budgeted step counts as a yield,
\* and ExecuteTestee itself leaves the testee's state as it was.
C4_TesteeOutcomeInDriverRegisters ==
    /\ [](/\ U64_ge_nat(td_obs.granted, td_obs.run_steps)
          /\ td_obs.who = "testee" =>
                LET regs == td.vm_driver.registers
                    r == td_obs.result
                IN  CASE r.kind = "Yield" ->
                            U64_is_zero(td.testee_remaining) /\ regs[0] = 0 /\ regs[1] = r.value
                      [] r.kind = "IllegalInstruction" ->
                            U64_is_zero(td.testee_remaining) /\ regs[0] = 65535 /\ regs[1] = r.value
                      [] OTHER ->
                            /\ U64_add_nat(td.testee_remaining, td_obs.run_steps) = td_obs.granted
                            /\ regs[0] = 1 /\ regs[1] = 0
          /\ (td_obs.who = "driver" /\ td_obs.result = Yield(1)) =>
                /\ td.testee_remaining = td_obs.granted
                /\ td.testee_limit = td_obs.granted
                /\ td.vm_driver.registers[0] = 1 /\ td.vm_driver.registers[1] = 0)
    /\ [][(a_do_step_ran /\ td_obs'.who = "driver" /\ td_obs'.result = Yield(1))
             => td'.vm_testee = td.vm_testee]_vars

\* the testee yielded on exactly the last step of its limit, in its second
\* run: it had kept its state from the first one
C4_Witness ==
    /\ td_obs.who = "testee"
    /\ td_obs.result.kind = "Yield"
    /\ U64_from_nat(td_obs.run_steps) = td_obs.granted
    /\ td.testee_insns > td_obs.run_steps
    /\ td.vm_driver.registers[0] = 0

\* C5: conclude terminates; it returns Timeout exactly when the two
\* counters reach total_budget before a do_step produced a result,
\* whichever machine was active; with total_budget = 0 no step is executed.
C5_ConcludeTerminates ==
    /\ <>(td_run.result.kind # "None")
    /\ [](td_run.result.kind = "Timeout" =>
            insns_sum = td_run.total_budget)
    /\ [](td_run.result.kind \notin {"None", "Timeout"} =>
            td_obs.steps > 0 /\ insns_sum <= td_run.total_budget)
    /\ [](td_run.total_budget = 0 /\ td_run.result.kind # "None" =>
            td_run.result.kind = "Timeout" /\ td_obs.steps = 0)
    /\ [][(td_run.result.kind = "None" /\ insns_sum = td_run.total_budget)
            => (td_run'.result.kind = "Timeout" /\ td' = td)]_vars

\* the budget ran out while the testee was the active machine
C5_Witness ==
    /\ td_run.result.kind = "Timeout"
    /\ ~U64_is_zero(td.testee_remaining)
    /\ td_obs.who = "testee"

\* C6: conclude returns one of IllegalInstruction, IllegalYield, Timeout or
\* Completed for every driver image, testee image and budget: no command
\* value 1..9 makes the host panic.
C6_NoGuestMakesHostFail ==
    td_run.result.kind \in
        {"None", "IllegalInstruction", "IllegalYield", "Timeout", "Completed"}

----------------------------------------------------------------------------
\* connect4: Player, SlotState, Board

Player_other(player) == IF player = "One" THEN "Two" ELSE "One"

\* SlotState: Empty, or Token(player) kept as the player's name
Empty == "Empty"

DEFAULT_WIDTH == 7
DEFAULT_HEIGHT == 6

new_custom(width, height) ==
    [slots |-> [i \in 0..(width * height - 1) |-> Empty],
     width |-> width,
     height |-> height]

\* same "weird" order as in the data segment layout
index(self, x, y) == x * self.height + y

get_slot(self, x, y) == self.slots[index(self, x, y)]

\* the loop `for i in 1..` of count_towards, from its i-th round on
RECURSIVE count_towards_from(_, _, _, _, _, _)
count_towards_from(self, x, y, dx, dy, i) ==
    LET new_x == x + i * dx
        new_y == y + i * dy
    IN  IF new_x < 0 \/ new_y < 0 THEN 0
        ELSE IF new_x >= self.width \/ new_y >= self.height THEN 0
        ELSE IF get_slot(self, new_x, new_y) # get_slot(self, x, y) THEN 0
        ELSE 1 + count_towards_from(self, x, y, dx, dy, i + 1)

count_towards(self, x, y, dx, dy) == count_towards_from(self, x, y, dx, dy, 1)

\* faulty variant of have_connect4: the direction (1, -1) is left out
have_connect4_three_directions(self, x, y) ==
    \E d \in {<<1, 0>>, <<1, 1>>, <<0, 1>>} :
        LET to_left == count_towards(self, x, y, -d[1], -d[2])
            to_right == count_towards(self, x, y, d[1], d[2])
        IN  to_left + 1 + to_right >= 4

have_connect4(self, x, y) ==
    \E d \in {<<1, -1>>, <<1, 0>>, <<1, 1>>, <<0, 1>>} :
        LET to_left == count_towards(self, x, y, -d[1], -d[2])
            to_right == count_towards(self, x, y, d[1], d[2])
        IN  to_left + 1 + to_right >= 4

\* the body of the loop `for y in 0..self.height` for the first empty slot
\* (x, y) of the column: the token is placed, then have_connect4 is asked
place_at(self, x, y, player) ==
    CHOOSE out \in
        {[board |-> placed,
          result |-> IF have_connect4(placed, x, y) THEN "Connect4" ELSE "Success"] :
            placed \in {[self EXCEPT !.slots[index(self, x, y)] = player]}} : TRUE

\* faulty variant of place_into_unsanitized_column: the token goes to the
\* highest empty slot of the column
place_into_unsanitized_column_top(self, column_index, player) ==
    IF column_index >= self.width
    THEN [board |-> self, result |-> "InvalidColumn"]
    ELSE LET x == column_index
             free == {y \in 0..(self.height - 1) : get_slot(self, x, y) = Empty}
         IN  IF free = {}
             THEN [board |-> self, result |-> "ColumnFull"]
             ELSE CHOOSE out \in
                     {place_at(self, x, y, player) :
                         y \in {y0 \in free : \A y1 \in free : y0 >= y1}} : TRUE

\* the board after the call and its PlacementResult
place_into_unsanitized_column(self, column_index, player) ==
    IF column_index >= self.width
    THEN [board |-> self, result |-> "InvalidColumn"]
    ELSE LET x == column_index
             free == {y \in 0..(self.height - 1) : get_slot(self, x, y) = Empty}
         IN  IF free = {}
             THEN [board |-> self, result |-> "ColumnFull"]
             ELSE CHOOSE out \in
                     {place_at(self, x, y, player) :
                         y \in {y0 \in free : \A y1 \in free : y0 <= y1}} : TRUE

encode_onto(self, current_player, segment) ==
    SegWriteAll(segment,
        [a \in {i + 4 : i \in DOMAIN self.slots} |->
            IF self.slots[a - 4] = Empty THEN 0
            ELSE IF self.slots[a - 4] = current_player THEN 1
            ELSE 2])

\* faulty variant of is_full: the bottom row is looked at, not the top row
is_full_bottom_row(self) ==
    \A x \in 0..(self.width - 1) : get_slot(self, x, 0) # Empty

\* faulty variant of is_full: one token in the top row is enough
is_full_some_top_slot(self) ==
    \E x \in 0..(self.width - 1) : get_slot(self, x, self.height - 1) # Empty

is_full(self) ==
    \A x \in 0..(self.width - 1) : get_slot(self, x, self.height - 1) # Empty

Board_default == new_custom(DEFAULT_WIDTH, DEFAULT_HEIGHT)

----------------------------------------------------------------------------
\* connect4: PlayerData

GAME_VERSION_MAJOR == 1
GAME_VERSION_MINOR == 1

AlgorithmResult_Column(column_index, deterministic) ==
    [kind |-> "Column", value |-> column_index, deterministic |-> deterministic]
AlgorithmResult_IllegalInstruction(insn) ==
    [kind |-> "IllegalInstruction", value |-> insn, deterministic |-> TRUE]
AlgorithmResult_Timeout ==
    [kind |-> "Timeout", value |-> 0, deterministic |-> TRUE]
\* the host process aborted inside vm.step(); not an AlgorithmResult
AlgorithmResult_Panicked ==
    [kind |-> "Panic", value |-> 0, deterministic |-> TRUE]

PlayerData_new(instructions) ==
    [vm |-> VirtualMachine_new(instructions,
                SegWrite(SegWrite(new_zeroed, 65535, GAME_VERSION_MAJOR),
                         65534, GAME_VERSION_MINOR)),
     last_move |-> 65535,
     total_moves |-> 0,
     total_insns |-> 0]

\* faulty variant of update_data: register 0 is the mover's own last move
update_data_own_last_move(self, own_identity, max_steps, board, other) ==
    LET d0 == set_data_word(self.vm, 0, Limb(max_steps, 3))
        d1 == set_data_word(d0, 1, Limb(max_steps, 2))
        d2 == set_data_word(d1, 2, Limb(max_steps, 1))
        d3 == set_data_word(d2, 3, Limb(max_steps, 0))
        d4 == [d3 EXCEPT !.data = encode_onto(board, own_identity, d3.data)]
        r0 == set_register(d4, 0, self.last_move)
        r1 == set_register(r0, 1, board.width)
        r2 == set_register(r1, 2, board.height)
        r3 == set_register(r2, 3, 0)
    IN  [self EXCEPT !.vm = r3]

update_data(self, own_identity, max_steps, board, other) ==
    LET d0 == set_data_word(self.vm, 0, Limb(max_steps, 3))
        d1 == set_data_word(d0, 1, Limb(max_steps, 2))
        d2 == set_data_word(d1, 2, Limb(max_steps, 1))
        d3 == set_data_word(d2, 3, Limb(max_steps, 0))
        d4 == [d3 EXCEPT !.data = encode_onto(board, own_identity, d3.data)]
        r0 == set_register(d4, 0, other.last_move)
        r1 == set_register(r0, 1, board.width)
        r2 == set_register(r1, 2, board.height)
        r3 == set_register(r2, 3, 0)
    IN  [self EXCEPT !.vm = r3]

\* what determine_answer does with the result of one vm.step(): the set of
\* (player data, AlgorithmResult) it can return from round `step_index` on
RECURSIVE determine_answer_from(_, _, _, _)
determine_answer_from(self, max_steps, step_index, h) ==
    IF step_index >= max_steps
    THEN {[player |-> [self EXCEPT !.total_insns = @ + max_steps],
           result |-> AlgorithmResult_Timeout]}
    ELSE UNION {
        IF o.result.kind = "IllegalInstruction" THEN
            {[player |-> [self EXCEPT !.vm = o.vm,
                                      !.total_insns = @ + step_index],
              result |-> AlgorithmResult_IllegalInstruction(o.result.value)]}
        ELSE IF o.result.kind = "Yield" THEN
            {[player |-> [self EXCEPT !.vm = o.vm,
                                      !.last_move = o.result.value,
                                      !.total_moves = @ + 1,
                                      !.total_insns = @ + step_index],
              result |-> AlgorithmResult_Column(o.result.value,
                                                o.vm.deterministic_so_far)]}
        ELSE IF o.result.kind = "Panic" THEN
            {[player |-> [self EXCEPT !.vm = o.vm],
              result |-> AlgorithmResult_Panicked]}
        ELSE UNION {determine_answer_from(next, max_steps, step_index + 1, h) :
                        next \in {[self EXCEPT !.vm = o.vm]}}
        : o \in step(self.vm, h)}

\* faulty variant of determine_answer: the loop runs `1..max_steps`, one
\* round less
determine_answer_one_less(self, max_steps, h) ==
    determine_answer_from(self, max_steps, 1, h)

determine_answer(self, max_steps, h) == determine_answer_from(self, max_steps, 0, h)

----------------------------------------------------------------------------
\* connect4: WinReason, GameResult, GameState, Game

WinReason_Connect4 == [kind |-> "Connect4", value |-> 0]
WinReason_Timeout == [kind |-> "Timeout", value |-> 0]
WinReason_IllegalInstruction(insn) == [kind |-> "IllegalInstruction", value |-> insn]
\* faulty variant of WinReason_IllegalColumn: the column is cut to a u8, as
\* it is for move_order
WinReason_IllegalColumn_u8(column_index) ==
    [kind |-> "IllegalColumn", value |-> column_index % 256]
WinReason_IllegalColumn(column_index) == [kind |-> "IllegalColumn", value |-> column_index]
WinReason_FullColumn(column_index) == [kind |-> "FullColumn", value |-> column_index]

Won(player, reason) == [kind |-> "Won", player |-> player, reason |-> reason]
Draw == [kind |-> "Draw", player |-> "None", reason |-> [kind |-> "None", value |-> 0]]

RunningNextIs(player) == [kind |-> "RunningNextIs", player |-> player, result |-> Draw]
Ended(result) == [kind |-> "Ended", player |-> "None", result |-> result]

Game_new(instructions_player_one, instructions_player_two, max_steps) ==
    [player_one |-> PlayerData_new(instructions_player_one),
     player_two |-> PlayerData_new(instructions_player_two),
     board |-> Board_default,
     state |-> RunningNextIs("One"),
     max_steps |-> max_steps,
     deterministic_so_far |-> TRUE,
     move_order |-> <<>>]

\* a do_move call: the game after it, the mover's AlgorithmResult and the
\* PlacementResult ("None" where the call returned before it got one)
MoveOut(self, answer, placement) ==
    [game |-> self, answer |-> answer, placement |-> placement]

\* faulty variant of state_after_connect4: the game goes on
state_after_connect4_running(moving_player) ==
    RunningNextIs(Player_other(moving_player))

\* the state do_move sets when the placement returned Connect4
state_after_connect4(moving_player) ==
    Ended(Won(moving_player, WinReason_Connect4))

\* faulty variant of do_move_placed: the column is pushed to the move order
\* before the placement result is looked at
do_move_placed_push_first(self, moving_player, answer, placed) ==
    LET column_index == answer.value
        with_board == [self EXCEPT !.board = placed.board]
        pushed == [with_board EXCEPT !.move_order = Append(@, column_index % 256)]
    IN  IF placed.result = "Success" THEN
            MoveOut([pushed EXCEPT !.state =
                        IF is_full(pushed.board)
                        THEN Ended(Draw)
                        ELSE RunningNextIs(Player_other(moving_player))],
                    answer, placed.result)
        ELSE IF placed.result = "Connect4" THEN
            MoveOut([pushed EXCEPT !.state = state_after_connect4(moving_player)],
                    answer, placed.result)
        ELSE IF placed.result = "InvalidColumn" THEN
            MoveOut([pushed EXCEPT !.state =
                        Ended(Won(Player_other(moving_player),
                                  WinReason_IllegalColumn(column_index)))],
                    answer, placed.result)
        ELSE
            MoveOut([pushed EXCEPT !.state =
                        Ended(Won(Player_other(moving_player),
                                  WinReason_FullColumn(column_index)))],
                    answer, placed.result)

\* do_move from the `match placement_result` on
do_move_placed(self, moving_player, answer, placed) ==
    LET column_index == answer.value
        with_board == [self EXCEPT !.board = placed.board]
        pushed == [with_board EXCEPT !.move_order = Append(@, column_index % 256)]
    IN  IF placed.result = "Success" THEN
            MoveOut([pushed EXCEPT !.state =
                        IF is_full(pushed.board)
                        THEN Ended(Draw)
                        ELSE RunningNextIs(Player_other(moving_player))],
                    answer, placed.result)
        ELSE IF placed.result = "Connect4" THEN
            MoveOut([pushed EXCEPT !.state = state_after_connect4(moving_player)],
                    answer, placed.result)
        ELSE IF placed.result = "InvalidColumn" THEN
            MoveOut([with_board EXCEPT !.state =
                        Ended(Won(Player_other(moving_player),
                                  WinReason_IllegalColumn(column_index)))],
                    answer, placed.result)
        ELSE
            MoveOut([with_board EXCEPT !.state =
                        Ended(Won(Player_other(moving_player),
                                  WinReason_FullColumn(column_index)))],
                    answer, placed.result)

\* do_move from `// Do the move, check the result.` on
do_move_place(self, moving_player, answer) ==
    CHOOSE out \in
        {do_move_placed(self, moving_player, answer, placed) :
            placed \in {place_into_unsanitized_column(self.board, answer.value,
                                                      moving_player)}} : TRUE

\* do_move for a game whose state is RunningNextIs(moving_player)
do_move_running(self, moving_player, h) ==
    LET moving_player_data ==
            IF moving_player = "One" THEN self.player_one ELSE self.player_two
        other_player_data ==
            IF moving_player = "One" THEN self.player_two ELSE self.player_one
    IN  { LET moved == IF moving_player = "One"
                       THEN [self EXCEPT !.player_one = a.player]
                       ELSE [self EXCEPT !.player_two = a.player]
          IN  IF a.result.kind = "Column" THEN
                  CHOOSE out \in
                      {do_move_place(decided, moving_player, a.result) :
                          decided \in
                              {[moved EXCEPT !.deterministic_so_far =
                                  IF ~a.result.deterministic THEN FALSE ELSE @]}} : TRUE
              ELSE IF a.result.kind = "IllegalInstruction" THEN
                  MoveOut([moved EXCEPT !.state =
                              Ended(Won(Player_other(moving_player),
                                        WinReason_IllegalInstruction(a.result.value)))],
                          a.result, "None")
              ELSE IF a.result.kind = "Timeout" THEN
                  MoveOut([moved EXCEPT !.state =
                              Ended(Won(Player_other(moving_player),
                                        WinReason_Timeout))],
                          a.result, "None")
              ELSE MoveOut(moved, a.result, "None")
          : a \in UNION {determine_answer(updated, self.max_steps, h) :
                            updated \in {update_data(moving_player_data, moving_player,
                                                     self.max_steps, self.board,
                                                     other_player_data)}} }

NoAnswer == [kind |-> "None", value |-> 0, deterministic |-> TRUE]

\* faulty variant of do_move: no early return for a game that has ended
do_move_always(self, h) ==
    do_move_running(self,
                    IF self.state.kind = "Ended" THEN "One" ELSE self.state.player,
                    h)

do_move(self, h) ==
    IF self.state.kind = "Ended"
    THEN {MoveOut(self, NoAnswer, "None")}
    ELSE do_move_running(self, self.state.player, h)

----------------------------------------------------------------------------
\* Game::conclude and Game::do_move on two player images.

\* the columns of a game that fills the board without four in a row, in the
\* order they are played, split into player one's and player two's moves
DrawColumnsOne == <<0, 0, 0, 1, 1, 1, 2, 2, 2, 4, 3, 3, 3, 4, 4, 5, 5, 5, 6, 6, 6>>
DrawColumnsTwo == <<0, 0, 0, 1, 1, 1, 2, 2, 2, 3, 3, 3, 4, 4, 4, 5, 5, 5, 6, 6, 6>>

\* lw r4,5; lwi r0,[r4]; incr r4; yield; j -3: plays the table behind it
Player_Table(columns) == <<13317, 8768, 22852, 4138, 43010>> \o columns

PlayerImages ==
    { <<61680>>,                      \* illegal instruction 0xF0F0 at once
      <<12288, 4138, 43009>>,         \* lw r0,0; yield; j -2: always column 0
      <<12289, 4138, 43009>>,         \* lw r0,1; yield; j -2: always column 1
      <<12543, 4138>>,                \* lw r0,0xFFFF; yield: column 0xFFFF
      <<12288, 16385, 4138>>,         \* lw r0,0; lhi r0,1; yield: column 0x0100
      <<12289, 43008>>,               \* lw r0,1; j -1 (loops for ever)
      <<12289, 24064, 4138, 12288, 4138>>, \* lw r0,1; rnd r0 -> r0; yield; lw r0,0; yield
      Player_Table(DrawColumnsOne),
      Player_Table(DrawColumnsTwo) }

NoGameResult == [kind |-> "None", player |-> "None", reason |-> [kind |-> "None", value |-> 0]]

GInit ==
    /\ host = DefaultHost
    /\ \E p1 \in PlayerImages, p2 \in PlayerImages, max_steps \in 0..MaxSteps :
           game = Game_new(from_prefix(p1), from_prefix(p2), max_steps)
    /\ g_obs = [calls |-> 0, successes |-> 0, concluding |-> 0, extra_calls |-> 0,
                mover |-> "None", answer |-> NoAnswer, placement |-> "None",
                returned |-> NoGameResult]
    /\ vm = Idle /\ vm_obs = Idle /\ many = Idle /\ bd = Idle
    /\ td = Idle /\ td_run = Idle /\ td_obs = Idle

\* a call of do_move: by the loop of conclude while the game is running, by
\* any caller once it has ended
GameDoMove ==
    /\ g_obs.answer.kind # "Panic"
    /\ game.state.kind = "Ended" => g_obs.extra_calls < MaxExtraCalls
    /\ \E o \in do_move(game, host) :
          /\ game' = o.game
          /\ g_obs' =
                IF game.state.kind = "Ended"
                THEN [g_obs EXCEPT !.extra_calls = @ + 1]
                ELSE [g_obs EXCEPT
                        !.calls = @ + 1,
                        !.successes = @ + (IF o.placement = "Success" THEN 1 ELSE 0),
                        !.concluding = @ + (IF o.placement = "Success" THEN 0 ELSE 1),
                        !.mover = game.state.player,
                        !.answer = o.answer,
                        !.placement = o.placement]
    /\ UNCHANGED <<host, vm, vm_obs, td, td_run, td_obs, many, bd>>

\* conclude finds the state Ended(result) and returns result
GameConcludeReturn ==
    /\ game.state.kind = "Ended"
    /\ g_obs.returned = NoGameResult
    /\ g_obs' = [g_obs EXCEPT !.returned = game.state.result]
    /\ UNCHANGED <<host, vm, vm_obs, td, td_run, td_obs, game, many, bd>>

GNext == GameDoMove \/ GameConcludeReturn

SpecGame == GInit /\ [][GNext]_vars
\* conclude is a plain loop: it keeps calling do_move until it returns
SpecGameFair == SpecGame /\ WF_vars(GameDoMove) /\ WF_vars(GameConcludeReturn)

\* C8: once the game is Ended(r), a further do_move leaves the state, the
\* board, the move order, the deterministic flag, both players' machines
\* and their total_moves and total_insns as they were.
C8_DoMoveIdempotentOnceEnded ==
    [][(game.state.kind = "Ended" /\ g_obs'.extra_calls = g_obs.extra_calls + 1) =>
        /\ game'.state = game.state
        /\ game'.board = game.board
        /\ game'.move_order = game.move_order
        /\ game'.deterministic_so_far = game.deterministic_so_far
        /\ game'.player_one.vm = game.player_one.vm
        /\ game'.player_two.vm = game.player_two.vm
        /\ game'.player_one.total_moves = game.player_one.total_moves
        /\ game'.player_two.total_moves = game.player_two.total_moves
        /\ game'.player_one.total_insns = game.player_one.total_insns
        /\ game'.player_two.total_insns = game.player_two.total_insns]_vars

\* do_move was called twice more on a game that ended after some moves
C8_Witness ==
    /\ game.state.kind = "Ended"
    /\ g_obs.extra_calls = 2
    /\ Len(game.move_order) > 2
    /\ game.player_two.total_insns > 0

\* C9: a game ends after at most width * height placements of outcome
\* Success and at most one more move, which is the last one; so the loop of
\* conclude ends and returns the result.
C9_GameEndsWithinBoardSize ==
    /\ [](/\ g_obs.successes <= game.board.width * game.board.height
          /\ g_obs.concluding <= 1
          /\ game.state.kind = "RunningNextIs" => g_obs.concluding = 0
          /\ g_obs.returned # NoGameResult =>
                game.state.kind = "Ended" /\ g_obs.returned = game.state.result)
    /\ <>(game.state.kind = "Ended")
    /\ <>(g_obs.returned # NoGameResult)

\* a draw: every slot of the board was filled by a Success placement
C9_Witness ==
    /\ g_obs.successes = DEFAULT_WIDTH * DEFAULT_HEIGHT
    /\ g_obs.concluding = 0
    /\ g_obs.returned.kind = "Draw"

\* every slot of column c holds a token
ColumnHoldsNoEmpty(board, c) ==
    \A y \in 0..(board.height - 1) : board.slots[c * board.height + y] # "Empty"

\* four slots in a line (a row, a column or a diagonal) hold tokens of player
FourInALine(board, player) ==
    \E x \in 0..(board.width - 1), y \in 0..(board.height - 1),
       d \in {<<1, 0>>, <<0, 1>>, <<1, 1>>, <<1, -1>>} :
        \A k \in 0..3 :
            /\ x + k * d[1] \in 0..(board.width - 1)
            /\ y + k * d[2] \in 0..(board.height - 1)
            /\ board.slots[(x + k * d[1]) * board.height + (y + k * d[2])] = player

\* C10: a do_move whose mover answers with an illegal instruction w, a
\* timeout, a column c >= width or a full column c ends the game as won by
\* the other player for the reason IllegalInstruction(w), Timeout,
\* IllegalColumn(c) or FullColumn(c) with the whole 16-bit w or c, and
\* leaves board and move order alone; a placement that completes four in a
\* line ends it as won by the mover for the reason Connect4.
C10_DoMoveOutcomes ==
    [][(game.state.kind = "RunningNextIs" /\ g_obs'.calls = g_obs.calls + 1) =>
        LET mover == game.state.player
            other == IF mover = "One" THEN "Two" ELSE "One"
            a == g_obs'.answer
            res == game'.state.result
            kept == game'.board = game.board /\ game'.move_order = game.move_order
            lost(reason, value) ==
                /\ game'.state.kind = "Ended"
                /\ res.kind = "Won" /\ res.player = other
                /\ res.reason.kind = reason /\ res.reason.value = value
                /\ kept
        IN  /\ a.kind = "IllegalInstruction" => lost("IllegalInstruction", a.value)
            /\ a.kind = "Timeout" => lost("Timeout", 0)
            /\ (a.kind = "Column" /\ a.value >= game.board.width) =>
                  lost("IllegalColumn", a.value)
            /\ (a.kind = "Column" /\ a.value < game.board.width
                    /\ ColumnHoldsNoEmpty(game.board, a.value)) =>
                  lost("FullColumn", a.value)
            /\ (a.kind = "Column" /\ a.value < game.board.width
                    /\ ~ColumnHoldsNoEmpty(game.board, a.value)
                    /\ FourInALine(game'.board, mover)) =>
                  /\ game'.state.kind = "Ended"
                  /\ res.kind = "Won" /\ res.player = mover
                  /\ res.reason.kind = "Connect4"]_vars

\* player two answered column 0x0100 on a board that held tokens already
C10_Witness ==
    /\ game.state.kind = "Ended"
    /\ g_obs.mover = "Two"
    /\ g_obs.answer.kind = "Column" /\ g_obs.answer.value = 256
    /\ game.state.result.reason.value = 256
    /\ game.state.result.player = "One"
    /\ Len(game.move_order) = 1

\* no slot of the board is empty
NoSlotEmpty(board) == \A i \in DOMAIN board.slots : board.slots[i] # "Empty"

\* C11: the first mover is player one; after a placement of outcome Success
\* the column is appended to the move order and the state is
\* RunningNextIs(the other player), or Ended(Draw) exactly when the
\* placement filled the board.
C11_PlayersAlternate ==
    /\ [](g_obs.calls = 0 =>
            game.state.kind = "RunningNextIs" /\ game.state.player = "One")
    /\ [][(game.state.kind = "RunningNextIs" /\ g_obs'.calls = g_obs.calls + 1
              /\ g_obs'.placement = "Success") =>
            LET mover == game.state.player
                other == IF mover = "One" THEN "Two" ELSE "One"
            IN  /\ g_obs'.mover = mover
                /\ game'.move_order = Append(game.move_order, g_obs'.answer.value)
                /\ IF NoSlotEmpty(game'.board)
                   THEN /\ game'.state.kind = "Ended"
                        /\ game'.state.result.kind = "Draw"
                   ELSE /\ game'.state.kind = "RunningNextIs"
                        /\ game'.state.player = other]_vars

\* the last Success placement of a game filled the board: a draw
C11_Witness ==
    /\ g_obs.placement = "Success"
    /\ g_obs.mover = "Two"
    /\ game.state.kind = "Ended"
    /\ game.state.result.kind = "Draw"
    /\ Len(game.move_order) = DEFAULT_WIDTH * DEFAULT_HEIGHT

----------------------------------------------------------------------------
\* run_and_print_many_games on two player images.

\* further games run_and_print_many_games plays after a first game that
\* was not deterministic (999 in the code)
MaxFurtherGames == 2

\* the step budget run_and_print_game gives each move
GAME_MAX_STEPS == 30000

\* the images of the games played many times; none of them can loop
ManyImages ==
    { <<61680>>,                       \* illegal instruction 0xF0F0 at once
      <<12288, 4138, 43009>>,          \* lw r0,0; yield; j -2: always column 0
      <<12289, 4138, 43009>>,          \* lw r0,1; yield; j -2: always column 1
      <<12289, 24064, 4138, 12288, 4138>>, \* lw r0,1; rnd r0 -> r0; yield; lw r0,0; yield
      <<12289, 24064, 36864, 61680, 4138>> } \* lw r0,1; rnd r0 -> r0; b r0 +2; illegal; yield

\* Game::new of run_and_print_game
run_and_print_game_new(instructions_one, instructions_two) ==
    Game_new(instructions_one, instructions_two, GAME_MAX_STEPS)

ManyInit ==
    /\ host = DefaultHost
    /\ \E p1 \in ManyImages, p2 \in ManyImages :
          /\ game = run_and_print_game_new(from_prefix(p1), from_prefix(p2))
          /\ many = [instructions_one |-> from_prefix(p1),
                     instructions_two |-> from_prefix(p2),
                     game_no |-> 1,
                     first_was_deterministic |-> TRUE,
                     assert_failed |-> FALSE,
                     returned |-> FALSE]
    /\ vm = Idle /\ vm_obs = Idle /\ g_obs = Idle /\ bd = Idle
    /\ td = Idle /\ td_run = Idle /\ td_obs = Idle

many_is_running == ~many.assert_failed /\ ~many.returned

\* run_and_print_game: a do_move of the loop of game.conclude()
ManyDoMove ==
    /\ many_is_running
    /\ game.state.kind = "RunningNextIs"
    /\ \E o \in do_move(game, host) : game' = o.game
    /\ UNCHANGED <<host, vm, vm_obs, td, td_run, td_obs, g_obs, many, bd>>

\* run_and_print_game returns game.was_deterministic_so_far() of the first
\* game: a deterministic one is the only game played
ManyFirstGameEnds ==
    /\ many_is_running
    /\ game.state.kind = "Ended"
    /\ many.game_no = 1
    /\ IF game.deterministic_so_far \/ MaxFurtherGames = 0
       THEN /\ many' = [many EXCEPT
                          !.first_was_deterministic = game.deterministic_so_far,
                          !.returned = TRUE]
            /\ game' = game
       ELSE /\ many' = [many EXCEPT !.first_was_deterministic = FALSE,
                                    !.game_no = 2]
            /\ game' = run_and_print_game_new(many.instructions_one,
                                              many.instructions_two)
    /\ UNCHANGED <<host, vm, vm_obs, td, td_run, td_obs, g_obs, bd>>

\* run_and_print_game returns for a further game, and
\* `assert!(!was_deterministic)` is evaluated
ManyFurtherGameEnds ==
    /\ many_is_running
    /\ game.state.kind = "Ended"
    /\ many.game_no > 1
    /\ IF game.deterministic_so_far
       THEN many' = [many EXCEPT !.assert_failed = TRUE] /\ game' = game
       ELSE IF many.game_no - 1 >= MaxFurtherGames
       THEN many' = [many EXCEPT !.returned = TRUE] /\ game' = game
       ELSE /\ many' = [many EXCEPT !.game_no = @ + 1]
            /\ game' = run_and_print_game_new(many.instructions_one,
                                              many.instructions_two)
    /\ UNCHANGED <<host, vm, vm_obs, td, td_run, td_obs, g_obs, bd>>

ManyNext == ManyDoMove \/ ManyFirstGameEnds \/ ManyFurtherGameEnds

SpecMany == ManyInit /\ [][ManyNext]_vars

\* C12: when the first game of two programs ended as not deterministic,
\* every further game of the same two programs ends as not deterministic
\* too, so `assert!(!was_deterministic)` never fails.
C12_FurtherGamesNotDeterministic ==
    /\ (many.game_no > 1 /\ game.state.kind = "Ended") => ~game.deterministic_so_far
    /\ ~many.assert_failed

\* C13: after any sequence of moves, each player's total_insns equals the
\* time counter of its VM, the number of steps the VM executed over all
\* its turns.
C13_TotalInsnsIsVmTime ==
    /\ game.player_one.total_insns = game.player_one.vm.time
    /\ game.player_two.total_insns = game.player_two.vm.time

\* the PlayerData of `player` in game `g`
PlayerDataOf(g, player) == IF player = "One" THEN g.player_one ELSE g.player_two

C15_IllegalStepNotCounted ==
    [][(a_do_step_ran /\ td_obs'.result.kind = "IllegalInstruction") =>
          /\ td'.driver_insns = td.driver_insns
          /\ td'.testee_insns = td.testee_insns]_vars

\* the host loop has just called vm.step()
a_step_ran == vm_obs'.calls = vm_obs.calls + 1

two_steps_of_lw_yield ==
    /\ vm_obs.calls = 2
    /\ \A a \in ProgAddrs :
          SegRead(vm.instructions, a) = (IF a = 0 THEN 12354 ELSE IF a = 1 THEN 4138 ELSE 0)

is_taken_branch(self) ==
    LET instruction == SegRead(self.instructions, self.program_counter)
    IN  Nibble(instruction, 3) = 9 /\ self.registers[Nibble(instruction, 2)] # 0

C19_StepIsTotal ==
    vm_obs.calls > 0 => vm_obs.last.kind \in {"Continue", "DebugDump", "IllegalInstruction", "Yield"}

\* the values an rnd instruction at the program counter can write to its
\* destination register
rnd_outcomes(self, h) ==
    LET dst == Nibble(SegRead(self.instructions, self.program_counter), 0)
    IN  {o.vm.registers[dst] : o \in step(self, h)}

----------------------------------------------------------------------------
\* TestResult::is_good and CompletionData::overall_rating

\* `self.results.iter().any(|&ir| ir == r)`
results_any(results, r) == \E i \in DOMAIN results : results[i] = r

\* faulty variant of overall_rating: Fail is looked for before FatalError
overall_rating_fail_first(self) ==
    IF ~self.consistent_marker THEN "Illegal"
    ELSE IF results_any(self.results, "Illegal") THEN "Illegal"
    ELSE IF results_any(self.results, "Fail") THEN "Fail"
    ELSE IF results_any(self.results, "FatalError") THEN "FatalError"
    ELSE IF results_any(self.results, "Pass") THEN "Pass"
    ELSE "Skip"

overall_rating(self) ==
    IF ~self.consistent_marker THEN "Illegal"
    ELSE IF results_any(self.results, "Illegal") THEN "Illegal"
    ELSE IF results_any(self.results, "FatalError") THEN "FatalError"
    ELSE IF results_any(self.results, "Fail") THEN "Fail"
    ELSE IF results_any(self.results, "Pass") THEN "Pass"
    ELSE "Skip"

is_good(self) ==
    IF self.kind = "Completed" THEN overall_rating(self) = "Pass" ELSE FALSE

----------------------------------------------------------------------------
\* conclude on drivers that prepare their data and registers, let the
\* testee run once, and then yield one command.

\* largest total_budget of these runs: enough for the longest driver
CmdBudget == 60

\* instruction words
Asm_lw(r, v) == 12288 + 256 * r + (v % 256)   \* 0x3RVV: r := VV sign-extended
Asm_lhi(r, v) == 16384 + 256 * r + v          \* 0x4RVV: high byte of r := VV
Asm_sw(ra, rd) == 8192 + 16 * ra + rd         \* 0x20AD: data[ra] := rd
Asm_yield == 4138                             \* 0x102A

\* code after which register r holds the word w
LoadWord(r, w) ==
    IF w < 128 THEN <<Asm_lw(r, w)>>
    ELSE IF w >= 65408 THEN <<Asm_lw(r, w % 256)>>
    ELSE <<Asm_lw(r, w % 256), Asm_lhi(r, w \div 256)>>

\* code after which data[a] = w; uses r14 and r15
StoreWord(a, w) == LoadWord(14, a) \o LoadWord(15, w) \o <<Asm_sw(14, 15)>>

\* code that stores the words ws at data[a], data[a + 1], ...
RECURSIVE StoreWords(_, _)
StoreWords(a, ws) ==
    IF ws = <<>> THEN <<>>
    ELSE StoreWord(a % W16, Head(ws)) \o StoreWords(a + 1, Tail(ws))

\* code that yields command r0 with the arguments r1, r2, r3
Command(r0, r1, r2, r3) ==
    LoadWord(1, r1) \o LoadWord(2, r2) \o LoadWord(3, r3) \o LoadWord(0, r0)
        \o <<Asm_yield>>

\* the testee of these runs: it fills registers and data words, then yields
\* lw r1,0x81; lw r5,0x55; sw r5,r1; lw r7,7; sw r7,r5; lw r15,0x0F; sw r1,r7;
\* lw r2,0xFF; sw r2,r5; sw r3,r1; lw r0,9; yield
CmdTestee ==
    <<12673, 13653, 8273, 14087, 8309, 16143, 8215,
      13055, 8229, 8241, 12297, 4138>>

\* most result words a Done driver reports one by one
MaxResults == 3
\* most words a copy command of these drivers copies
MaxCopy == 3

\* the result words 1..4 and a word that is none of them
ResultWords == {0, 1, 2, 3, 4}
\* the two words written after the results: the marker, and three wrong ones
Markers == {<<25869, 17797>>, <<25869, 0>>, <<0, 17797>>, <<17797, 25869>>}

\* drivers that store n result words and two marker words, then yield Done
\* (2) with r1 = n; with r1 = 0xFFFE and 0xFFFF, with and without the
\* marker at data[0xFFFE]
DoneDrivers ==
    { StoreWords(0, ws \o m) \o Command(2, Len(ws), 0, 0) :
          ws \in UNION {[1..n -> ResultWords] : n \in 0..MaxResults}, m \in Markers }
      \cup { StoreWord(0, 1) \o Command(2, n, 0, 0) : n \in {65534, 65535} }
      \cup { StoreWords(65534, <<25869, 17797>>) \o StoreWord(1, 4)
                 \o Command(2, n, 0, 0) : n \in {65534, 65535} }

\* drivers that yield a value that is no command, before and after a run of
\* the testee
IllegalYieldDrivers ==
    { Command(v, 0, 0, 0) : v \in {0, 10, 66, 65535} }
      \cup { Command(1, 0, 0, 0) \o Command(v, 0, 0, 0) : v \in {0, 10, 66, 65535} }

\* drivers that let the testee run, then yield AccessRegisters (3)
AccessDrivers ==
    { StoreWords(0, <<17, 34>>) \o StoreWord(16, 51) \o Command(1, 0, 0, 0)
          \o Command(3, bitset, offset, 0) :
          bitset \in {0, 5, 32769, 42405, 65535}, offset \in {0, 16, 65528} }

\* drivers that let the testee run, then yield a copy command (4, 5, 6)
CopyDrivers ==
    { StoreWords(0, <<17, 34>>) \o Command(1, 0, 0, 0)
          \o Command(c, dst, src, count) :
          c \in {4, 5, 6}, dst \in {0, 32, 65535}, src \in {0, 85, 65534},
          count \in 0..MaxCopy }

\* drivers that let the testee run, yield ResetTesteeVM (7) and run it again
ResetDrivers == { Command(1, 0, 0, 0) \o Command(7, 0, 0, 0) \o Command(1, 0, 0, 0) }

\* drivers that yield ResetTimeLimit (8), then let the testee run
LimitDrivers ==
    { Command(8, r1, r2, r3) \o Command(1, 0, 0, 0) :
          r1 \in {0, 1}, r2 \in {0, 1}, r3 \in {0, 2, 65535} }

CmdDrivers ==
    DoneDrivers \cup IllegalYieldDrivers \cup AccessDrivers \cup CopyDrivers
        \cup ResetDrivers \cup LimitDrivers

CmdInit ==
    /\ host = DefaultHost
    /\ \E d \in CmdDrivers :
           td = TestDriverData_new(from_prefix(d), from_prefix(CmdTestee))
    /\ \E total_budget \in {MaxBudget, CmdBudget} :
           td_run = [total_budget |-> total_budget, result |-> TR_None]
    /\ td_obs = [steps |-> 0, who |-> "none", result |-> NoResult, run_steps |-> 0,
                 granted |-> U64_from_nat(0)]
    /\ vm = Idle /\ vm_obs = Idle
    /\ game = Idle /\ g_obs = Idle /\ many = Idle /\ bd = Idle

\* run_and_print_tests after conclude has returned: `println!("{}", result)`
\* prints the overall rating of a Completed result, and `result.is_good()`
\* is returned
CmdPrint ==
    /\ td_run.result.kind \notin {"None", "Panic"}
    /\ "is_good" \notin DOMAIN td_obs
    /\ td_obs' = [steps |-> td_obs.steps, who |-> td_obs.who, result |-> td_obs.result,
                  run_steps |-> td_obs.run_steps, granted |-> td_obs.granted,
                  overall |-> IF td_run.result.kind = "Completed"
                              THEN overall_rating(td_run.result) ELSE "none",
                  is_good |-> is_good(td_run.result)]
    /\ UNCHANGED <<host, vm, vm_obs, td, td_run, game, g_obs, many, bd>>

CmdNext == TDNext \/ CmdPrint

SpecCmd == CmdInit /\ [][CmdNext]_vars

\* the driver has just yielded `command`
a_driver_yielded(command) ==
    a_do_step_ran /\ td_obs'.who = "driver" /\ td_obs'.result = Yield(command)

\* C21: when the driver yields a value outside 1..=9 (0x0000 and 0xFFFF
\* included), conclude returns IllegalYield(value) on that step; no testee
\* step is executed for it and the testee VM is not modified.
C21_IllegalYieldEndsRun ==
    /\ [][(/\ a_do_step_ran
           /\ td_obs'.who = "driver"
           /\ td_obs'.result.kind = "Yield"
           /\ td_obs'.result.value \notin 1..9) =>
             /\ td_run'.result = [kind |-> "IllegalYield", value |-> td_obs'.result.value,
                                  consistent_marker |-> FALSE, results |-> <<>>]
             /\ td'.vm_testee = td.vm_testee
             /\ td'.testee_insns = td.testee_insns
             /\ td'.testee_remaining = td.testee_remaining]_vars
    /\ [][td_run.result.kind = "IllegalYield" => (td' = td /\ td_run' = td_run)]_vars
    /\ [](td_run.result.kind = "IllegalYield" =>
             (td_obs.result.kind = "Yield" /\ td_obs.result.value \notin 1..9))

C21_Witness ==
    /\ td_run.result.kind = "IllegalYield"
    /\ td_run.result.value = 65535
    /\ td.vm_testee.registers[0] = 9
    /\ td.testee_insns > 0

\* the individual result a result word stands for
ResultOfWord(w) ==
    IF w = 1 THEN "Pass" ELSE IF w = 2 THEN "Fail" ELSE IF w = 3 THEN "FatalError"
    ELSE IF w = 4 THEN "Skip" ELSE "Illegal"

\* C22: when the driver yields Done (2) with r1 = N: for N <= 0xFFFE the
\* result is Completed with exactly N individual results, the i-th decoded
\* from driver data[i] (1 Pass, 2 Fail, 3 FatalError, 4 Skip, any other
\* word Illegal), and the marker is consistent iff data[N] = 0x650D and
\* data[N+1] = 0x4585; for N = 0xFFFF the result is Completed with no
\* results and an inconsistent marker.
C22_DoneReadsResults ==
    [][a_driver_yielded(2) =>
        LET N == td.vm_driver.registers[1]
            data == td.vm_driver.data
            res == td_run'.result
        IN  /\ res.kind = "Completed"
            /\ IF N = 65535
               THEN res.results = <<>> /\ res.consistent_marker = FALSE
               ELSE /\ Len(res.results) = N
                    /\ \A i \in 0..(N - 1) :
                          res.results[i + 1] = ResultOfWord(SegRead(data, i))
                    /\ res.consistent_marker <=>
                          (SegRead(data, N) = 25869 /\ SegRead(data, N + 1) = 17797)]_vars

C22_Witness ==
    /\ td_run.result.kind = "Completed"
    /\ td.vm_driver.registers[1] = 65534
    /\ Len(td_run.result.results) = 65534
    /\ td_run.result.results[2] = "Skip"
    /\ td_run.result.consistent_marker

\* run_and_print_tests has printed the result and returned
printed == "is_good" \in DOMAIN td_obs
\* the individual results of the result of conclude, as a set
ResultSet == {td_run.result.results[i] : i \in DOMAIN td_run.result.results}

\* C23: the overall rating of a Completed result is Illegal if the marker
\* is inconsistent or any result is Illegal; otherwise FatalError if any
\* result is FatalError; otherwise Fail if any is Fail; otherwise Pass if
\* any is Pass; otherwise (no results, or only Skip) Skip. It depends on
\* which results occur, not on their order.
C23_OverallRatingPriority ==
    (printed /\ td_run.result.kind = "Completed") =>
        td_obs.overall =
            CASE ~td_run.result.consistent_marker -> "Illegal"
              [] "Illegal" \in ResultSet -> "Illegal"
              [] "FatalError" \in ResultSet -> "FatalError"
              [] "Fail" \in ResultSet -> "Fail"
              [] "Pass" \in ResultSet -> "Pass"
              [] OTHER -> "Skip"

C23_Witness ==
    /\ printed
    /\ td_run.result.kind = "Completed"
    /\ td_run.result.results = <<"Skip", "Pass", "Fail">>
    /\ td_obs.overall = "Fail"

\* C24: is_good() is true for a Completed result with a consistent marker
\* whose individual results are all Pass, the empty result list included,
\* and false for IllegalInstruction, IllegalYield, Timeout, an inconsistent
\* marker, or a result list containing Fail, FatalError or Illegal.
C24_IsGoodIffAllPass ==
    printed =>
        /\ (/\ td_run.result.kind = "Completed"
            /\ td_run.result.consistent_marker
            /\ ResultSet \subseteq {"Pass"}) => td_obs.is_good
        /\ (\/ td_run.result.kind \in {"IllegalInstruction", "IllegalYield", "Timeout"}
            \/ /\ td_run.result.kind = "Completed"
               /\ \/ ~td_run.result.consistent_marker
                  \/ ResultSet \cap {"Fail", "FatalError", "Illegal"} # {}) => ~td_obs.is_good

\* the words of segment `seg2` that differ from those of `seg`
SegChanged(seg, seg2) ==
    {a \in (DOMAIN seg) \cup (DOMAIN seg2) : SegRead(seg, a) # SegRead(seg2, a)}

\* C25: when the driver yields AccessRegisters (3) with r1 = bitset and
\* r2 = offset, then for every i in 0..16: if bit i is set, testee r_i
\* becomes driver data[(offset+i) mod 2^16] and that data word is unchanged;
\* otherwise that data word becomes testee r_i and the register is
\* unchanged. Afterwards testee r_i = driver data[(offset+i) mod 2^16] for
\* all i, and no other driver data word, driver register or testee data
\* word has changed.
C25_AccessRegisters ==
    [][a_driver_yielded(3) =>
        LET d == td.vm_driver
            t == td.vm_testee
            d2 == td'.vm_driver
            t2 == td'.vm_testee
            bitset == d.registers[1]
            at(i) == (d.registers[2] + i) % W16
        IN  /\ \A i \in 0..15 :
                  /\ IF (bitset \div Pow2(i)) % 2 = 1
                     THEN /\ t2.registers[i] = SegRead(d.data, at(i))
                          /\ SegRead(d2.data, at(i)) = SegRead(d.data, at(i))
                     ELSE /\ SegRead(d2.data, at(i)) = t.registers[i]
                          /\ t2.registers[i] = t.registers[i]
                  /\ t2.registers[i] = SegRead(d2.data, at(i))
            /\ SegChanged(d.data, d2.data) \subseteq {at(i) : i \in 0..15}
            /\ d2.registers = d.registers
            /\ t2.data = t.data
            /\ t2.instructions = t.instructions
            /\ t2.program_counter = t.program_counter
            /\ td_run'.result.kind = "None"]_vars

C25_Witness ==
    /\ td_obs.who = "driver" /\ td_obs.result = Yield(3)
    /\ td.vm_driver.registers[1] = 42405
    /\ td.vm_driver.registers[2] = 65528
    /\ td.vm_testee.registers[7] = 3
    /\ td.vm_testee.registers[8] = 17
    /\ SegRead(td.vm_driver.data, 65529) = 65409
    /\ SegRead(td.vm_driver.data, 65534) = 0

\* the words copy command `command` reads, and the words it writes
CopySource(self, command) ==
    IF command = 4 THEN self.vm_driver.data
    ELSE IF command = 5 THEN self.vm_testee.data
    ELSE self.vm_testee.instructions
CopyDestination(self, command) ==
    IF command = 4 THEN self.vm_testee.data ELSE self.vm_driver.data

\* C26: for each copy command (OverwriteData 4: driver data to testee data;
\* ReadData 5: testee data to driver data; ReadInstructions 6: testee
\* instructions to driver data) with r1 = dst, r2 = src, r3 = count:
\* afterwards destination[(dst+i) mod 2^16] equals the source word
\* [(src+i) mod 2^16] as it was before the command for every i < count,
\* every other destination word is unchanged, and the source segment, both
\* instruction segments and both register files are unchanged.
C26_CopyCommands ==
    [][\A command \in {4, 5, 6} : a_driver_yielded(command) =>
        LET dst == td.vm_driver.registers[1]
            src == td.vm_driver.registers[2]
            count == td.vm_driver.registers[3]
            source == CopySource(td, command)
            before == CopyDestination(td, command)
            after == CopyDestination(td', command)
        IN  /\ \A i \in 0..(count - 1) :
                  SegRead(after, (dst + i) % W16) = SegRead(source, (src + i) % W16)
            /\ SegChanged(before, after) \subseteq {(dst + i) % W16 : i \in 0..(count - 1)}
            /\ CopySource(td', command) = source
            /\ td'.vm_driver.instructions = td.vm_driver.instructions
            /\ td'.vm_testee.instructions = td.vm_testee.instructions
            /\ td'.vm_driver.registers = td.vm_driver.registers
            /\ td'.vm_testee.registers = td.vm_testee.registers
            /\ command = 4 => td'.vm_driver.data = td.vm_driver.data
            /\ command # 4 => td'.vm_testee.data = td.vm_testee.data
            /\ td_run'.result.kind = "None"]_vars

C26_Witness ==
    /\ td_obs.who = "driver" /\ td_obs.result = Yield(6)
    /\ td.vm_driver.registers[1] = 65535
    /\ td.vm_driver.registers[2] = 65534
    /\ td.vm_driver.registers[3] = 3
    /\ SegRead(td.vm_driver.data, 1) = 12673
    /\ SegRead(td.vm_driver.data, 0) = 0
    /\ SegRead(td.vm_driver.data, 65535) = 0

\* C27: when the driver yields ResetTesteeVM (7), the testee's data
\* segment, all 16 registers and its PC become zero, its instruction segment
\* is unchanged, and the session continues with the driver's next
\* instruction.
C27_ResetTesteeVM ==
    [][a_driver_yielded(7) =>
          /\ td'.vm_testee.data = new_zeroed
          /\ td'.vm_testee.registers = [i \in 0..15 |-> 0]
          /\ td'.vm_testee.program_counter = 0
          /\ td'.vm_testee.instructions = td.vm_testee.instructions
          /\ td_run'.result.kind = "None"
          /\ td'.vm_driver.program_counter = (td.vm_driver.program_counter + 1) % W16]_vars

\* C28: when the driver yields ResetTimeLimit (8), testee_limit becomes
\* r1 * 2^32 + r2 * 2^16 + r3 of the driver, and every later ExecuteTestee
\* grants the testee exactly that many steps; until the first
\* ResetTimeLimit the limit is 0x0000_FFFF_FFFF_FFFF.
C28_ResetTimeLimit ==
    /\ [](td_obs.steps = 0 => td.testee_limit = <<0, 65535, 65535, 65535>>)
    /\ [][a_do_step_ran =>
            LET regs == td.vm_driver.registers
            IN  /\ td'.testee_limit =
                      (IF a_driver_yielded(8) THEN <<0, regs[1], regs[2], regs[3]>>
                       ELSE td.testee_limit)
                /\ a_driver_yielded(1) => td'.testee_remaining = td.testee_limit]_vars

----------------------------------------------------------------------------
\* A Board on its own: new_custom(width, height), then calls of
\* place_into_unsanitized_column with any column and any player.

\* calls with freely chosen arguments that follow the calls of a script
MaxFreeCalls == 2

\* the sizes of the boards: the smallest one, and the default one
BoardSizes == {<<4, 4>>, <<DEFAULT_WIDTH, DEFAULT_HEIGHT>>}

\* the columns of the freely chosen calls on a board of width `width`
FreeColumns(width) == {0, 1, 2, 3, width - 1, width, 256, 65535}

\* the calls (column, player) that begin a run
BoardScripts ==
    { <<>>,
      \* three of One in the bottom row, next to each other and with a gap
      << <<0, "One">>, <<1, "One">>, <<2, "One">> >>,
      << <<0, "One">>, <<1, "One">>, <<3, "One">> >>,
      \* three of One on top of one of Two in column 0
      << <<0, "Two">>, <<0, "One">>, <<0, "One">>, <<0, "One">> >>,
      \* six calls on column 1: a 4-high column is full after four of them
      << <<1, "One">>, <<1, "Two">>, <<1, "One">>, <<1, "Two">>, <<1, "One">>, <<1, "Two">> >>,
      \* One at (0,0), (1,1), (2,2); column 3 holds three of Two
      << <<0, "One">>, <<1, "Two">>, <<1, "One">>, <<2, "Two">>, <<2, "Two">>,
         <<2, "One">>, <<3, "Two">>, <<3, "Two">>, <<3, "Two">> >>,
      \* One at (3,0), (2,1), (1,2); column 0 holds three of Two
      << <<3, "One">>, <<2, "Two">>, <<2, "One">>, <<1, "Two">>, <<1, "Two">>,
         <<1, "One">>, <<0, "Two">>, <<0, "Two">>, <<0, "Two">> >>,
      \* columns 0, 1, 2 four high and column 3 two high: two more calls fill
      \* a 4x4 board
      << <<0, "One">>, <<0, "Two">>, <<0, "One">>, <<0, "Two">>,
         <<1, "Two">>, <<1, "One">>, <<1, "Two">>, <<1, "One">>,
         <<2, "One">>, <<2, "Two">>, <<2, "One">>, <<2, "Two">>,
         <<3, "Two">>, <<3, "One">> >> }

NoPlacement == "none"

BoardInit ==
    /\ host = DefaultHost
    /\ \E size \in BoardSizes, script \in BoardScripts :
          bd = [board |-> new_custom(size[1], size[2]),
                script |-> script,
                free_calls |-> 0,
                column_index |-> 0,
                player |-> "One",
                result |-> NoPlacement]
    /\ vm = Idle /\ vm_obs = Idle
    /\ td = Idle /\ td_run = Idle /\ td_obs = Idle
    /\ game = Idle /\ g_obs = Idle /\ many = Idle

\* one call of place_into_unsanitized_column: the next call of the script,
\* then calls with any of the columns and players
BoardPlace ==
    /\ bd.script = <<>> => bd.free_calls < MaxFreeCalls
    /\ \E column_index \in (IF bd.script = <<>> THEN FreeColumns(bd.board.width)
                            ELSE {Head(bd.script)[1]}),
          player \in (IF bd.script = <<>> THEN {"One", "Two"}
                      ELSE {Head(bd.script)[2]}) :
          LET out == place_into_unsanitized_column(bd.board, column_index, player)
          IN  bd' = [board |-> out.board,
                     script |-> IF bd.script = <<>> THEN <<>> ELSE Tail(bd.script),
                     free_calls |-> bd.free_calls + (IF bd.script = <<>> THEN 1 ELSE 0),
                     column_index |-> column_index,
                     player |-> player,
                     result |-> out.result]
    /\ UNCHANGED <<host, vm, vm_obs, td, td_run, td_obs, game, g_obs, many>>

BoardNext == BoardPlace

SpecBoard == BoardInit /\ [][BoardNext]_vars

\* a call of place_into_unsanitized_column has just returned
a_placement_ran == bd' # bd

\* the slot (x, y) of `board`
SlotAt(board, x, y) == board.slots[x * board.height + y]

\* C29: after any sequence of place_into_unsanitized_column calls (accepted
\* or rejected, any players, any 16-bit column values), in every column the
\* non-empty slots form a contiguous run starting at y = 0; each call adds
\* at most one token and never changes or removes an existing token.
C29_ColumnsBottomAnchored ==
    /\ [](\A x \in 0..(bd.board.width - 1), y \in 1..(bd.board.height - 1) :
             SlotAt(bd.board, x, y) # "Empty" => SlotAt(bd.board, x, y - 1) # "Empty")
    /\ [][a_placement_ran =>
            /\ DOMAIN bd'.board.slots = DOMAIN bd.board.slots
            /\ \A i \in DOMAIN bd.board.slots :
                  bd.board.slots[i] # "Empty" => bd'.board.slots[i] = bd.board.slots[i]
            /\ Cardinality({i \in DOMAIN bd.board.slots :
                               bd'.board.slots[i] # bd.board.slots[i]}) <= 1
            /\ bd'.board.width = bd.board.width
            /\ bd'.board.height = bd.board.height]_vars

\* a rejected call on a full column of a board that holds tokens of both
\* players in columns of different heights
C29_Witness ==
    /\ bd.result = "ColumnFull"
    /\ bd.free_calls = 2
    /\ SlotAt(bd.board, 1, 3) = "Two"
    /\ SlotAt(bd.board, 0, 0) = "Two"
    /\ SlotAt(bd.board, 0, 1) = "Empty"

\* the slots of column x of `board` that hold a token
TokensInColumn(board, x) ==
    Cardinality({y \in 0..(board.height - 1) : SlotAt(board, x, y) # "Empty"})

\* the cell (x, y) lies on a line of four cells of `board`, in a row, a
\* column or a diagonal, that all hold tokens of `player`
FourThrough(board, x, y, player) ==
    \E d \in {<<1, 0>>, <<0, 1>>, <<1, 1>>, <<1, -1>>}, s \in 0..3 :
        \A k \in 0..3 :
            LET cx == x + (k - s) * d[1]
                cy == y + (k - s) * d[2]
            IN  /\ cx \in 0..(board.width - 1)
                /\ cy \in 0..(board.height - 1)
                /\ SlotAt(board, cx, cy) = player

\* C30: place_into_unsanitized_column(c, p) returns InvalidColumn iff
\* c >= width and ColumnFull iff c < width and column c already holds height
\* tokens, both leaving the board unchanged; otherwise Token(p) is written
\* at the lowest empty y of column c and the result is Connect4 iff that
\* cell lies on a horizontal, vertical or diagonal line of at least four
\* consecutive Token(p) cells, else Success.
C30_PlacementClassified ==
    [][a_placement_ran =>
        LET before == bd.board
            after == bd'.board
            c == bd'.column_index
            p == bd'.player
        IN  /\ bd'.result = "InvalidColumn" <=> c >= before.width
            /\ bd'.result = "ColumnFull" <=>
                  (c < before.width /\ TokensInColumn(before, c) = before.height)
            /\ bd'.result \in {"InvalidColumn", "ColumnFull"} => after = before
            /\ bd'.result \notin {"InvalidColumn", "ColumnFull"} =>
                  LET y == TokensInColumn(before, c)
                  IN  /\ SlotAt(before, c, y) = "Empty"
                      /\ after = [before EXCEPT !.slots[c * before.height + y] = p]
                      /\ bd'.result =
                            (IF FourThrough(after, c, y, p) THEN "Connect4" ELSE "Success")]_vars

\* a token of One at (0, 3) completes the diagonal (0,3), (1,2), (2,1), (3,0)
C30_Witness ==
    /\ bd.result = "Connect4"
    /\ bd.column_index = 0 /\ bd.player = "One"
    /\ SlotAt(bd.board, 0, 3) = "One"
    /\ SlotAt(bd.board, 1, 2) = "One"
    /\ SlotAt(bd.board, 2, 1) = "One"
    /\ SlotAt(bd.board, 3, 0) = "One"
    /\ SlotAt(bd.board, 0, 2) = "Two"

----------------------------------------------------------------------------
\* The frame a player's VM is handed at the start of a move.

\* the mover's VM as do_move hands it to determine_answer
vm_at_move_start(g) ==
    update_data(PlayerDataOf(g, g.state.player), g.state.player, g.max_steps,
                g.board, PlayerDataOf(g, Player_other(g.state.player))).vm

\* the data addresses update_data writes: the budget and the encoded board
frame_addresses(board) == 0..(3 + board.width * board.height)

\* C31: at the start of every move, before the mover's VM runs, r0 is the
\* column the opponent yielded last (0xFFFF on the first move of the game),
\* r1 the width, r2 the height, r3 = 0, data[0..3] is max_steps with the most
\* significant word first, data[4 + x*height + y] is 0, 1 or 2 for an empty
\* slot, the mover's token, the opponent's token; r4..r15, the PC and every
\* other data word are as that VM last left them.
C31_MoveStartFrame ==
    [][(game.state.kind = "RunningNextIs" /\ g_obs'.calls = g_obs.calls + 1) =>
        LET mover == game.state.player
            before == PlayerDataOf(game, mover).vm
            start == vm_at_move_start(game)
            board == game.board
        IN  /\ start.registers[0] =
                  IF game.move_order = <<>> THEN 65535
                  ELSE game.move_order[Len(game.move_order)]
            /\ start.registers[1] = board.width
            /\ start.registers[2] = board.height
            /\ start.registers[3] = 0
            /\ \A k \in 0..3 :
                  SegRead(start.data, k) = Limb(game.max_steps, 3 - k)
            /\ \A x \in 0..(board.width - 1), y \in 0..(board.height - 1) :
                  SegRead(start.data, 4 + x * board.height + y) =
                      IF get_slot(board, x, y) = Empty THEN 0
                      ELSE IF get_slot(board, x, y) = mover THEN 1 ELSE 2
            /\ \A r \in 4..15 : start.registers[r] = before.registers[r]
            /\ start.program_counter = before.program_counter
            /\ \A a \in (DOMAIN start.data \cup DOMAIN before.data)
                            \ frame_addresses(board) :
                  SegRead(start.data, a) = SegRead(before.data, a)
            \* the move that follows runs from this frame
            /\ \E o \in determine_answer([PlayerDataOf(game, mover) EXCEPT !.vm = start],
                                         game.max_steps, host) :
                  o.player.vm = PlayerDataOf(game', mover).vm]_vars

\* player one's second move has started from a frame showing its own token
\* in column 0 and the opponent's in column 1, and r1..r3 still hold it
C31_Witness ==
    /\ g_obs.calls = 3
    /\ g_obs.mover = "One"
    /\ game.move_order = <<0, 1, 0>>
    /\ game.max_steps = MaxSteps
    /\ game.player_one.vm.registers[1] = DEFAULT_WIDTH
    /\ game.player_one.vm.registers[2] = DEFAULT_HEIGHT
    /\ game.player_one.vm.registers[3] = 0
    /\ SegRead(game.player_one.vm.data, 3) = MaxSteps
    /\ SegRead(game.player_one.vm.data, 4) = 1
    /\ SegRead(game.player_one.vm.data, 4 + DEFAULT_HEIGHT) = 2
    /\ SegRead(game.player_one.vm.data, 5) = 0

----------------------------------------------------------------------------
\* Compare, division, shift, branch and jump instructions on a VirtualMachine
\* whose host has set r1 and r2 (VirtualMachine::set_register) before the
\* first step; the instruction under test is at address 0.

\* register values: the ends of the unsigned and of the signed range, small
\* values around the shift width, and +-7, +-2 for truncating division
AluValues == {0, 1, 2, 7, 15, 16, 17, 32767, 32768, 65529, 65534, 65535}

\* 0x8(LEGS)RD with R = 1 and D = 2 or D = 1
CompareInsns == {32768 + 256 * legs + 16 + d : legs \in 0..15, d \in {1, 2}}
\* 0x6F12 for div.u, div.s, mod.u, mod.s, sl, srl, sra: r2 := fn(r1, r2)
BinaryInsns == {24576 + 256 * function + 18 : function \in {4, 5, 6, 7, 11, 12, 13}}
\* 0x91(SVVVVVVV): branch on r1; 0xA(SVVVVVVVVVVV): jump by immediate
BranchInsns == {37120 + 128 * s + v : s \in {0, 1}, v \in {0, 1, 127}}
JumpInsns == {40960 + 2048 * s + v : s \in {0, 1}, v \in {0, 1, 2047}}

\* the images: one instruction at address 0, or a jump or branch from 0 back
\* to 0xFFFF with a forward jump or branch there
AluImages ==
    {[a \in {0} |-> insn] :
        insn \in CompareInsns \cup BinaryInsns \cup BranchInsns \cup JumpInsns}
    \cup {[a \in {0, 65535} |-> IF a = 0 THEN back ELSE forward] :
            back \in {37248, 43008},
            forward \in {37120, 37247, 40960, 43007}}

AluInit ==
    /\ host = DefaultHost
    /\ \E image \in AluImages, r1 \in AluValues, r2 \in AluValues :
           vm = set_register(set_register(
                    VirtualMachine_new(SegOf(image), new_zeroed), 1, r1), 2, r2)
    /\ vm_obs = [calls |-> 0, last |-> NoResult, steps_ok |-> 0, rnd_executed |-> 0,
                 pc_before |-> 0, time_before |-> 0, insn |-> 0]
    /\ td = Idle /\ td_run = Idle /\ td_obs = Idle
    /\ game = Idle /\ g_obs = Idle /\ many = Idle /\ bd = Idle

SpecAlu == AluInit /\ [][VMStep]_vars

\* the instruction word the step about to run reads
insn_at_pc == SegRead(vm.instructions, vm.program_counter)
\* bit k of a word
Bit(word, k) == (word \div Pow2(k)) % 2
\* a word read as a signed 16-bit value
Signed(word) == IF word < 32768 THEN word ELSE word - 65536

\* C32: a compare 0x8(LEGS)RD sets r_D to 1 iff a selected relation (L <,
\* E =, G >) holds between r_R and the right-hand side, else to 0; signed
\* when S = 1, unsigned when S = 0; the right-hand side is r_D when R # D
\* and 0 when R = D; no flag gives 0; r_R is unchanged when R # D.
C32_Compare ==
    [][(a_step_ran /\ insn_at_pc \div 4096 = 8) =>
        LET L == Bit(insn_at_pc, 11) = 1
            E == Bit(insn_at_pc, 10) = 1
            G == Bit(insn_at_pc, 9) = 1
            S == Bit(insn_at_pc, 8) = 1
            R == (insn_at_pc \div 16) % 16
            D == insn_at_pc % 16
            left == IF S THEN Signed(vm.registers[R]) ELSE vm.registers[R]
            right == IF R = D THEN 0
                     ELSE IF S THEN Signed(vm.registers[D]) ELSE vm.registers[D]
            related == (L /\ left < right) \/ (E /\ left = right) \/ (G /\ left > right)
        IN  /\ vm_obs'.last = Continue
            /\ vm'.registers[D] = IF related THEN 1 ELSE 0
            /\ (~L /\ ~E /\ ~G) => vm'.registers[D] = 0
            /\ \A r \in 0..15 : r # D => vm'.registers[r] = vm.registers[r]]_vars

\* eq r1 r1 (0x8411) has run on a non-zero r1: the result 0 tells that r1 was
\* compared with 0, not with itself
C32_Witness ==
    /\ vm_obs.calls = 1
    /\ vm_obs.insn = 33809
    /\ vm_obs.last = Continue
    /\ vm.registers[1] = 0
    /\ vm.registers[2] = 32768

\* the quotient of two signed values, truncated toward zero: its magnitude is
\* the quotient of the magnitudes, its sign the product of the signs
QuotientTowardZero(a, b) ==
    LET magnitude == Abs(a) \div Abs(b)
    IN  IF (a < 0) # (b < 0) THEN 0 - magnitude ELSE magnitude

C34_Shifts ==
    [][(a_step_ran /\ insn_at_pc \div 4096 = 6
                   /\ (insn_at_pc \div 256) % 16 \in 11..13) =>
        LET function == (insn_at_pc \div 256) % 16
            D == insn_at_pc % 16
            src == vm.registers[(insn_at_pc \div 16) % 16]
            amount == vm.registers[D]
            result == vm'.registers[D]
        IN  /\ vm_obs'.last = Continue
            /\ \A r \in 0..15 : r # D => vm'.registers[r] = vm.registers[r]
            /\ (amount >= 16 /\ function \in {11, 12}) => result = 0
            /\ (amount >= 16 /\ function = 13) =>
                  result = IF Bit(src, 15) = 1 THEN 65535 ELSE 0
            /\ (amount < 16 /\ function = 11) =>
                  \A k \in 0..15 :
                      Bit(result, k) = IF k >= amount THEN Bit(src, k - amount) ELSE 0
            /\ (amount < 16 /\ function = 12) =>
                  \A k \in 0..15 :
                      Bit(result, k) = IF k + amount <= 15 THEN Bit(src, k + amount) ELSE 0
            /\ (amount < 16 /\ function = 13) =>
                  \A k \in 0..15 :
                      Bit(result, k) = IF k + amount <= 15 THEN Bit(src, k + amount)
                                       ELSE Bit(src, 15)]_vars

\* sl (0x6B12) has run on 0xFFFF with an amount of 16 or more: the result is
\* 0, which no amount below 16 gives
C34_Witness ==
    /\ vm_obs.calls = 1
    /\ vm_obs.insn = 27410
    /\ vm_obs.last = Continue
    /\ vm.registers[1] = 65535
    /\ vm.registers[2] = 0

\* C35: a taken branch (class 9, register # 0) and a jump by immediate
\* (class A) set PC to (PC + 2 + V) mod 2^16 when S = 0 and to
\* (PC - 1 - V) mod 2^16 when S = 1, V the 7-bit or 11-bit immediate; the
\* displacement is never 0 or +1, and it wraps around both ends of the
\* address space.
C35_BranchAndJumpTarget ==
    [][(a_step_ran /\ (is_taken_branch(vm) \/ insn_at_pc \div 4096 = 10)) =>
        LET branch == insn_at_pc \div 4096 = 9
            S == IF branch THEN Bit(insn_at_pc, 7) ELSE Bit(insn_at_pc, 11)
            V == IF branch THEN insn_at_pc % 128 ELSE insn_at_pc % 2048
            PC == vm.program_counter
        IN  /\ vm_obs'.last = Continue
            /\ vm'.program_counter =
                  IF S = 0 THEN (PC + 2 + V) % 65536 ELSE (PC - 1 - V) % 65536
            /\ vm'.program_counter # PC
            /\ vm'.program_counter # (PC + 1) % 65536
            /\ vm'.registers = vm.registers]_vars

\* j -1 at address 0 has gone down to 0xFFFF, and j +2+2047 (0xA7FF) there
\* has gone up past the top to 0x0800
C35_Witness ==
    /\ vm_obs.calls = 2
    /\ vm_obs.pc_before = 65535
    /\ vm_obs.insn = 43007
    /\ vm_obs.last = Continue
    /\ vm.program_counter = 2048
    /\ SegRead(vm.instructions, 0) = 43008

rnd_has_run(player_data) == ~player_data.vm.deterministic_so_far

\* C37: after every Game::do_move, was_deterministic_so_far() is false iff
\* at least one of the two player VMs has executed an rnd during this game,
\* whether the move in which rnd ran ended in a column, a timeout or an
\* illegal instruction.
C37_GameFlagIffRndRan ==
    (g_obs.calls > 0 /\ g_obs.answer.kind # "Panic") =>
        (~game.deterministic_so_far <=>
            (rnd_has_run(game.player_one) \/ rnd_has_run(game.player_two)))

----------------------------------------------------------------------------
\* Two runs of Game::conclude on the same two programs with the same
\* max_steps, one after the other, as run_and_print_many_games runs them.

\* lw r0,1; rnd r0; b r0 +2; 0xF0F0; yield: an illegal instruction when rnd
\* gave 0, column 1 when it gave 1
Player_RndThenIllegal == <<12289, 24064, 36864, 61680, 4138, 43013>>

RerunImages ==
    { <<61680>>,                      \* illegal instruction 0xF0F0 at once
      <<12288, 4138, 43009>>,         \* lw r0,0; yield; j -2: always column 0
      <<12289, 4138, 43009>>,         \* lw r0,1; yield; j -2: always column 1
      <<12289, 24064, 4138, 12288, 4138>>, \* lw r0,1; rnd r0 -> r0; yield; lw r0,0; yield
      Player_RndThenIllegal }

RerunInit ==
    /\ host = DefaultHost
    /\ \E p1 \in RerunImages, p2 \in RerunImages, max_steps \in 0..MaxSteps :
          /\ game = Game_new(from_prefix(p1), from_prefix(p2), max_steps)
          /\ many = [second |-> Game_new(from_prefix(p1), from_prefix(p2), max_steps)]
    /\ g_obs = [calls |-> 0, successes |-> 0, concluding |-> 0, extra_calls |-> 0,
                mover |-> "None", answer |-> NoAnswer, placement |-> "None",
                returned |-> NoGameResult]
    /\ vm = Idle /\ vm_obs = Idle /\ bd = Idle
    /\ td = Idle /\ td_run = Idle /\ td_obs = Idle

\* a do_move of the loop of conclude in the first run
RerunFirstDoMove ==
    /\ game.state.kind # "Ended"
    /\ \E o \in do_move(game, host) :
          /\ game' = o.game
          /\ g_obs' = [g_obs EXCEPT !.calls = @ + 1, !.mover = game.state.player,
                                    !.answer = o.answer, !.placement = o.placement]
    /\ UNCHANGED <<host, vm, vm_obs, td, td_run, td_obs, many, bd>>

\* a do_move of the loop of conclude in the second run, started after the
\* first has ended
RerunSecondDoMove ==
    /\ game.state.kind = "Ended"
    /\ many.second.state.kind # "Ended"
    /\ \E o \in do_move(many.second, host) :
          /\ many' = [second |-> o.game]
          /\ g_obs' = [g_obs EXCEPT !.extra_calls = @ + 1, !.mover = many.second.state.player,
                                    !.answer = o.answer, !.placement = o.placement]
    /\ UNCHANGED <<host, vm, vm_obs, td, td_run, td_obs, game, bd>>

RerunNext == RerunFirstDoMove \/ RerunSecondDoMove

SpecRerun == RerunInit /\ [][RerunNext]_vars

\* C38: if Game::conclude finishes with was_deterministic_so_far() = true,
\* every other run of the same two programs with the same max_steps ends
\* with the same GameResult, the same move order and the same per-player
\* instruction totals.
C38_DeterministicGameReproducible ==
    (/\ game.state.kind = "Ended"
     /\ many.second.state.kind = "Ended"
     /\ game.deterministic_so_far) =>
        /\ many.second.state.result = game.state.result
        /\ many.second.move_order = game.move_order
        /\ many.second.player_one.total_insns = game.player_one.total_insns
        /\ many.second.player_two.total_insns = game.player_two.total_insns

\* C39: for every board reached from the empty board by placements,
\* is_full() (which looks at the top row only) is true iff no slot of the
\* board is Empty; while it is false at least one column still accepts a
\* placement.
C39_IsFullIffNoEmptySlot ==
    /\ is_full(bd.board) <=>
          (\A x \in 0..(bd.board.width - 1), y \in 0..(bd.board.height - 1) :
              SlotAt(bd.board, x, y) # "Empty")
    /\ ~is_full(bd.board) =>
          \E column_index \in 0..(bd.board.width - 1) :
              place_into_unsanitized_column(bd.board, column_index, "One").result
                  \in {"Success", "Connect4"}

\* the last two calls have filled the 4x4 board, by way of a board whose
\* top row lacked one token only
C39_Witness ==
    /\ bd.board.width = 4
    /\ bd.free_calls = 2
    /\ bd.result \in {"Success", "Connect4"}
    /\ bd.column_index = 3
    /\ is_full(bd.board)
    /\ TokensInColumn(bd.board, 3) = 4

\* the number of entries before the i-th of `move_order` that name its column
EarlierInColumn(move_order, i) ==
    Cardinality({j \in 1..(i - 1) : move_order[j] = move_order[i]})

\* C40: in every reachable Game state, move_order has exactly one entry per
\* token on the board (hence at most width*height entries), every entry is
\* a column index < width, and the i-th entry (counted from 0) was placed by
\* Player::One iff i is even; so `assert!(col < 10)` of run_and_print_game
\* holds for every entry on the default 7x6 board.
C40_MoveOrderMatchesBoard ==
    LET board == game.board
        move_order == game.move_order
    IN  /\ Len(move_order) =
              Cardinality({i \in DOMAIN board.slots : board.slots[i] # "Empty"})
        /\ Len(move_order) <= board.width * board.height
        /\ \A i \in 1..Len(move_order) :
              /\ move_order[i] < board.width
              /\ move_order[i] < 10
              /\ SlotAt(board, move_order[i], EarlierInColumn(move_order, i)) =
                    IF (i - 1) % 2 = 0 THEN "One" ELSE "Two"

\* a game that filled the default board: 42 entries, the last by player two
C40_Witness ==
    /\ game.state = Ended(Draw)
    /\ Len(game.move_order) = DEFAULT_WIDTH * DEFAULT_HEIGHT
    /\ game.move_order[1] = 0
    /\ game.move_order[42] = 6
    /\ SlotAt(game.board, 6, 5) = "Two"
====
